---- MODULE Spec2Model ----
(***************************************************************************)
(* Model of the recipe_finder backend: the data-access functions of        *)
(* backend/crud.py over the tables of backend/models.py, the input schemas *)
(* of backend/schemas.py and the route handlers of backend/main.py.        *)
(*                                                                         *)
(* Strings whose content the code inspects (strip, lower, emptiness) are   *)
(* sequences of one-character strings.  A Python Optional is a sequence of *)
(* length at most one: None is << >> and a present value x is << x >>.     *)
(***************************************************************************)
EXTENDS Integers, Sequences, FiniteSets, Bags, TLC

VARIABLES
    users,        \* table users: sequence of rows, the row's id is its index
    recipes,      \* table recipes with its association rows: id -> row
    ingredients,  \* table ingredients: sequence of names, the id is the index
    now,          \* the clock the token expiry is compared with
    req,          \* the HTTP request being handled (sequential service)
    resp,         \* the response to req, until it is delivered
    pc,           \* concurrent service: where each in-flight request stands
    sess,         \* concurrent service: each request's session-local data
    issued        \* token scenarios: the calls of create_access_token made so far

vars == <<users, recipes, ingredients, now, req, resp, pc, sess, issued>>
dbvars == <<users, recipes, ingredients>>

(***************************************************************************)
(* Bounds of the model.                                                    *)
(***************************************************************************)
MaxRecipes == 2
MaxTime == 1
MaxListed == 5
MaxIssued == 2
MaxSeedId == 5

ACCESS_TOKEN_EXPIRE_MINUTES == 10080
DefaultLimit == 100
CustomExpiry == 30

None == << >>
Some(x) == << x >>

Max(S) == CHOOSE x \in S : \A y \in S : y <= x
Min(S) == CHOOSE x \in S : \A y \in S : x <= y
Range(s) == { s[i] : i \in DOMAIN s }

(***************************************************************************)
(* str.strip() and str.lower() on sequences of characters.                 *)
(***************************************************************************)
IsSpace(c) == c = " "

LowerChar(c) ==
    CASE c = "A" -> "a"
      [] c = "B" -> "b"
      [] c = "T" -> "t"
      [] c = "U" -> "u"
      [] OTHER -> c

Lower(s) == [i \in DOMAIN s |-> LowerChar(s[i])]

RECURSIVE LStrip(_)
LStrip(s) ==
    IF s # << >> /\ IsSpace(Head(s)) THEN LStrip(Tail(s)) ELSE s

RECURSIVE RStrip(_)
RStrip(s) ==
    IF s # << >> /\ IsSpace(s[Len(s)]) THEN RStrip(SubSeq(s, 1, Len(s) - 1)) ELSE s

Strip(s) == RStrip(LStrip(s))

(***************************************************************************)
(* Credential module (backend/auth.py).  A hash carries the salt it was    *)
(* made with; a token carries its claims, its expiry and whether its       *)
(* signature was made with the process secret.                             *)
(***************************************************************************)
Salts == {"salt1", "salt2"}

get_password_hash(password, salt) == [salt |-> salt, digest |-> <<salt, password>>]

verify_password(password, hashed) == hashed.digest = <<hashed.salt, password>>

\* Mutant of Lifetime: the caller's override is ignored.
Lifetime_AlwaysDefault(expires_delta) == ACCESS_TOKEN_EXPIRE_MINUTES

\* The lifetime of a token, in minutes: the caller's, or 7 days.
Lifetime(expires_delta) ==
    IF expires_delta = None THEN ACCESS_TOKEN_EXPIRE_MINUTES ELSE expires_delta[1]

create_access_token(sub, expires_delta, t) ==
    [kind |-> "jwt", sub |-> sub, exp |-> t + Lifetime(expires_delta), sig |-> "ok"]

\* Mutant of decode_access_token: the expiry is not compared with the clock.
decode_access_token_NoExpiry(token, t) ==
    IF token.kind = "jwt" /\ token.sig = "ok"
    THEN Some([sub |-> token.sub, exp |-> token.exp])
    ELSE None

decode_access_token(token, t) ==
    IF token.kind = "jwt" /\ token.sig = "ok" /\ t < token.exp
    THEN Some([sub |-> token.sub, exp |-> token.exp])
    ELSE None

(***************************************************************************)
(* Input schemas (backend/schemas.py).  A raw field is an Optional: None   *)
(* when the body does not carry it.  Each validator returns None when the  *)
(* body is rejected (422) and the validated object otherwise.              *)
(***************************************************************************)
\* Mutant of NotEmpty: a value of blanks passes.
NotEmpty_BlanksPass(v) == v # None /\ v[1] # << >>

\* "if not v or not v.strip(): raise ValueError"; a missing field fails too.
NotEmpty(v) == v # None /\ v[1] # << >> /\ Strip(v[1]) # << >>

UserCreate(body) ==
    IF NotEmpty(body.username) /\ NotEmpty(body.password)
    THEN Some([username |-> Strip(body.username[1]),
               password |-> Strip(body.password[1])])
    ELSE None

RecipeCreate(body) ==
    IF NotEmpty(body.title)
    THEN Some([title |-> Strip(body.title[1]),
               description |-> body.description,
               image_url |-> body.image_url,
               ingredients |-> IF body.ingredients = None THEN << >>
                               ELSE body.ingredients[1]])
    ELSE None

(***************************************************************************)
(* Storage layer (backend/models.py): the inserts, with the unique         *)
(* constraints of the tables.  ok = FALSE is the uniqueness violation.     *)
(***************************************************************************)
\* Mutant of InsertUser: the username column is not unique.
InsertUser_NotUnique(us, username, hashed) ==
    [ok |-> TRUE,
     users |-> Append(us, [username |-> username, hashed_password |-> hashed]),
     id |-> Len(us) + 1]

InsertUser(us, username, hashed) ==
    IF \E i \in DOMAIN us : us[i].username = username
    THEN [ok |-> FALSE, users |-> us, id |-> 0]
    ELSE [ok |-> TRUE,
          users |-> Append(us, [username |-> username, hashed_password |-> hashed]),
          id |-> Len(us) + 1]

\* Mutant of InsertIngredient: the name column is not unique.
InsertIngredient_NotUnique(ings, name) ==
    [ok |-> TRUE, ingredients |-> Append(ings, name), id |-> Len(ings) + 1]

InsertIngredient(ings, name) ==
    IF \E i \in DOMAIN ings : ings[i] = name
    THEN [ok |-> FALSE, ingredients |-> ings, id |-> 0]
    ELSE [ok |-> TRUE, ingredients |-> Append(ings, name), id |-> Len(ings) + 1]

\* An INTEGER PRIMARY KEY of SQLite: one more than the largest id in the table.
NewRecipeId(rs) == IF DOMAIN rs = {} THEN 1 ELSE Max(DOMAIN rs) + 1

InsertRecipe(rs, row) == (NewRecipeId(rs) :> row) @@ rs

(***************************************************************************)
(* Data-access module (backend/crud.py), one request at a time.            *)
(***************************************************************************)
\* Mutant of get_user_by_username: the match ignores the letter case.
get_user_by_username_AnyCase(us, username) ==
    LET found == { i \in DOMAIN us : Lower(us[i].username) = Lower(username) }
    IN  IF found = {} THEN None ELSE Some(Min(found))

get_user_by_username(us, username) ==
    LET found == { i \in DOMAIN us : us[i].username = username }
    IN  IF found = {} THEN None ELSE Some(Min(found))

\* Mutant of create_user: the new row takes the place of the rows there are.
create_user_Replaces(us, username, hashed) ==
    [ok |-> TRUE,
     users |-> << [username |-> username, hashed_password |-> hashed] >>,
     id |-> 1]

create_user(us, username, hashed) == InsertUser(us, username, hashed)

\* Mutant of Normalize: the case of the name is kept.
Normalize_KeepsCase(name) == Strip(name)

\* "name.strip().lower()"
Normalize(name) == Lower(Strip(name))

FindIngredient(ings, name) ==
    LET found == { i \in DOMAIN ings : ings[i] = name }
    IN  IF found = {} THEN None ELSE Some(Min(found))

\* Mutant of create_or_get_ingredient: the name is looked up and stored as given.
create_or_get_ingredient_AsGiven(ings, raw) ==
    LET ingredient == FindIngredient(ings, raw)
    IN  IF ingredient = None
        THEN InsertIngredient(ings, raw)
        ELSE [ok |-> TRUE, ingredients |-> ings, id |-> ingredient[1]]

create_or_get_ingredient(ings, raw) ==
    LET name == Normalize(raw)
        ingredient == FindIngredient(ings, name)
    IN  IF ingredient = None
        THEN InsertIngredient(ings, name)
        ELSE [ok |-> TRUE, ingredients |-> ings, id |-> ingredient[1]]

(***************************************************************************)
(* recipe.ingredients.  The rows of recipe_ingredient that belong to a     *)
(* recipe are a bag of ingredient ids: the table has no key, so a row can  *)
(* be there more than once.  A session loads the collection as the list of *)
(* the distinct ingredients of those rows (baseline); the handler then     *)
(* works on the list (current, a bag: append does not look for the item).  *)
(* The sessions are made with autoflush = False: pending changes reach the *)
(* table at a commit only.  At a commit the session INSERTs one row for    *)
(* every item of the list that is not in the baseline, once per occurrence,*)
(* and DELETEs by (recipe, ingredient) for every ingredient of the baseline*)
(* that is no longer in the list; the DELETE must match as many rows as    *)
(* ingredients it names, else the commit fails (StaleDataError).           *)
(***************************************************************************)
One(x) == SetToBag({x})

Restrict(rows, ids) == [x \in DOMAIN rows \cap ids |-> rows[x]]

\* Mutant of FlushAssociations: a commit writes no association row.
FlushAssociations_Nothing(rows, baseline, current) == [ok |-> TRUE, rows |-> rows]

FlushAssociations(rows, baseline, current) ==
    LET removed == baseline \ BagToSet(current)
        added == Restrict(current, BagToSet(current) \ baseline)
    IN  [ok |-> BagCardinality(Restrict(rows, removed)) = Cardinality(removed),
         rows |-> Restrict(rows, DOMAIN rows \ removed) (+) added]

\* The loop "for name in ingredient_names: ... recipe.ingredients.append(ing)".
\* create_or_get_ingredient commits when it creates a row, which flushes
\* the collection and expires it: the next append loads it anew.  committed
\* tells whether a commit has been made; ok = FALSE is a commit that failed,
\* with the tables as the last commit left them.
RECURSIVE AttachAll(_, _, _, _, _, _)
AttachAll(ings, names, rows, baseline, current, committed) ==
    IF names = << >>
    THEN [ok |-> TRUE, ingredients |-> ings, rows |-> rows,
          baseline |-> baseline, current |-> current, committed |-> committed]
    ELSE LET r == create_or_get_ingredient(ings, Head(names))
             f == FlushAssociations(rows, baseline, current)
         IN  IF r.ingredients = ings
             THEN AttachAll(ings, Tail(names), rows, baseline,
                            current (+) One(r.id), committed)
             ELSE IF ~f.ok
             THEN [ok |-> FALSE, ingredients |-> ings, rows |-> rows,
                   baseline |-> baseline, current |-> current, committed |-> committed]
             ELSE AttachAll(r.ingredients, Tail(names), f.rows, BagToSet(f.rows),
                            SetToBag(BagToSet(f.rows)) (+) One(r.id), TRUE)

\* The row is committed first, with no ingredients; no commit of the loop
\* and not the last one can fail, as they delete no row.
create_recipe(D, title, description, image_url, ingredient_names, owner_id) ==
    LET id == NewRecipeId(D.recipes)
        a == AttachAll(D.ingredients, ingredient_names, EmptyBag, {}, EmptyBag, TRUE)
        f == FlushAssociations(a.rows, a.baseline, a.current)
        row == [title |-> title, description |-> description,
                image_url |-> image_url, owner_id |-> owner_id,
                ingredients |-> f.rows]
    IN  [db |-> [D EXCEPT !.recipes = InsertRecipe(D.recipes, row),
                          !.ingredients = a.ingredients],
         id |-> id]

\* Mutant of get_recipe: the query is not filtered by the id.
get_recipe_AnyRow(rs, recipe_id) ==
    IF DOMAIN rs = {} THEN None ELSE Some(CHOOSE id \in DOMAIN rs : \A other \in DOMAIN rs : id <= other)

\* "db.query(models.Recipe).filter(models.Recipe.id == recipe_id).first()"
get_recipe(rs, recipe_id) ==
    IF recipe_id \in DOMAIN rs THEN Some(recipe_id) ELSE None

\* Mutant of update_recipe: the row is written back without its owner.
update_recipe_DropsOwner(D, id, title, description, image_url, ingredient_names) ==
    [ok |-> TRUE,
     db |-> [D EXCEPT !.recipes = [D.recipes EXCEPT ![id] =
                [@ EXCEPT !.title = IF title # None THEN title[1] ELSE @,
                          !.owner_id = None]]]]

\* The fields are set and the list is emptied in the session; the first commit
\* (of a new ingredient, or the last one) flushes them.  ok = FALSE is a
\* commit that failed: the tables are as the last commit left them.
update_recipe(D, id, title, description, image_url, ingredient_names) ==
    LET old == D.recipes[id]
        set == [old EXCEPT
                  !.title = IF title # None THEN title[1] ELSE @,
                  !.description = IF description # None THEN description ELSE @,
                  !.image_url = IF image_url # None THEN image_url ELSE @]
        a == IF ingredient_names = None
             THEN [ok |-> TRUE, ingredients |-> D.ingredients, rows |-> old.ingredients,
                   baseline |-> BagToSet(old.ingredients), current |-> old.ingredients,
                   committed |-> FALSE]
             ELSE AttachAll(D.ingredients, ingredient_names[1], old.ingredients,
                            BagToSet(old.ingredients), EmptyBag, FALSE)
        f == FlushAssociations(a.rows, a.baseline, a.current)
        ok == a.ok /\ f.ok
        row == IF ok THEN [set EXCEPT !.ingredients = f.rows]
               ELSE IF a.committed THEN [set EXCEPT !.ingredients = a.rows]
               ELSE old
    IN  [ok |-> ok,
         db |-> [D EXCEPT !.recipes = [D.recipes EXCEPT ![id] = row],
                          !.ingredients = a.ingredients]]

\* "db.delete(recipe); db.commit()": the row goes with its association rows,
\* which are deleted by (recipe, ingredient) for the ingredients loaded.
\* Mutant of delete_recipe: the names of the ingredients that no recipe is left
\* with are blanked.
delete_recipe_ClearsOrphans(D, id) ==
    LET rest == [r \in DOMAIN D.recipes \ {id} |-> D.recipes[r]]
        used == UNION { BagToSet(rest[r].ingredients) : r \in DOMAIN rest }
    IN  [ok |-> TRUE,
         db |-> [D EXCEPT !.recipes = rest,
                          !.ingredients = [i \in DOMAIN D.ingredients |->
                                             IF i \in used THEN D.ingredients[i]
                                             ELSE << >>]]]

delete_recipe(D, id) ==
    LET f == FlushAssociations(D.recipes[id].ingredients,
                               BagToSet(D.recipes[id].ingredients), EmptyBag)
    IN  [ok |-> f.ok,
         db |-> IF f.ok
                THEN [D EXCEPT !.recipes = [r \in DOMAIN D.recipes \ {id} |-> D.recipes[r]]]
                ELSE D]

\* The ids of a set in ascending order: the order of a scan of the table.
RECURSIVE Ascending(_)
Ascending(ids) ==
    IF ids = {} THEN << >>
    ELSE <<Min(ids)>> \o Ascending(ids \ {Min(ids)})

\* Mutant of list_recipes: the limit is taken from the start of the table, not
\* from the offset.
list_recipes_LimitFromStart(rs, skip, limit) ==
    LET all == Ascending(DOMAIN rs)
        first == IF limit < 0 THEN all ELSE SubSeq(all, 1, Min({limit, Len(all)}))
    IN  SubSeq(first, Max({skip, 0}) + 1, Len(first))

\* ".offset(skip).limit(limit).all()" on the recipes table, in SQLite: the
\* rows come in the order of their ids; a negative OFFSET counts as 0 and a
\* negative LIMIT is no limit.
list_recipes(rs, skip, limit) ==
    LET all == Ascending(DOMAIN rs)
        rest == SubSeq(all, Max({skip, 0}) + 1, Len(all))
    IN  IF limit < 0 THEN rest ELSE SubSeq(rest, 1, Min({limit, Len(rest)}))

NotBlank(n) == Strip(n) # << >>

\* "q = q.filter(models.Recipe.ingredients.any(models.Ingredient.name == name))"
\* for every name in turn.
RECURSIVE FilterAll(_, _, _)
FilterAll(D, names, ids) ==
    IF names = << >> THEN ids
    ELSE FilterAll(D, Tail(names),
             { id \in ids : \E i \in BagToSet(D.recipes[id].ingredients) :
                               D.ingredients[i] = Head(names) })

\* Mutant of search_recipes_by_ingredients: a recipe with any of the names is found.
search_recipes_by_ingredients_AnyName(D, ingredient_list) ==
    LET kept == SelectSeq(ingredient_list, NotBlank)
        names == [k \in DOMAIN kept |-> Lower(Strip(kept[k]))]
    IN  IF names = << >> THEN << >>
        ELSE Ascending({ id \in DOMAIN D.recipes :
                           \E k \in DOMAIN names : FilterAll(D, <<names[k]>>, {id}) # {} })

\* The ids of the recipes found, in the order of the table.
search_recipes_by_ingredients(D, ingredient_list) ==
    LET kept == SelectSeq(ingredient_list, NotBlank)
        names == [k \in DOMAIN kept |-> Lower(Strip(kept[k]))]
    IN  IF names = << >> THEN << >>
        ELSE Ascending(FilterAll(D, names, DOMAIN D.recipes))

(***************************************************************************)
(* Sample data (backend/seed_data.py).                                     *)
(***************************************************************************)
alice == <<"a", "l", "i", "c", "e">>

bob == <<"b", "o", "b">>

password123 == <<"p", "a", "s", "s", "w", "o", "r", "d", "1", "2", "3">>

garlic == <<"g", "a", "r", "l", "i", "c">>

\* 'Tomato Pasta': 'Quick tomato pasta with garlic and basil.'
Title1 == <<"T", "o", "m", "a", "t", "o", " ", "P", "a", "s", "t", "a">>

Description1 == <<"Q", "u", "i", "c", "k", " ", "t", "o", "m", "a", "t", "o",
    " ", "p", "a", "s", "t", "a", " ", "w", "i", "t", "h", " ", "g", "a",
    "r", "l", "i", "c", " ", "a", "n", "d", " ", "b", "a", "s", "i", "l",
    ".">>

\* 'tomato', 'pasta', 'garlic', 'basil', 'olive oil'
Ingredients1 ==
    << <<"t", "o", "m", "a", "t", "o">>,
       <<"p", "a", "s", "t", "a">>,
       garlic,
       <<"b", "a", "s", "i", "l">>,
       <<"o", "l", "i", "v", "e", " ", "o", "i", "l">> >>

\* 'Avocado Toast': 'Simple avocado toast with lemon and pepper.'
Title2 == <<"A", "v", "o", "c", "a", "d", "o", " ", "T", "o", "a", "s", "t">>

Description2 == <<"S", "i", "m", "p", "l", "e", " ", "a", "v", "o", "c", "a",
    "d", "o", " ", "t", "o", "a", "s", "t", " ", "w", "i", "t", "h", " ",
    "l", "e", "m", "o", "n", " ", "a", "n", "d", " ", "p", "e", "p", "p",
    "e", "r", ".">>

\* 'avocado', 'bread', 'lemon', 'salt', 'pepper'
Ingredients2 ==
    << <<"a", "v", "o", "c", "a", "d", "o">>,
       <<"b", "r", "e", "a", "d">>,
       <<"l", "e", "m", "o", "n">>,
       <<"s", "a", "l", "t">>,
       <<"p", "e", "p", "p", "e", "r">> >>

\* 'Chicken Stir Fry': 'Vegetables and chicken stir-fried with soy sauce.'
Title3 == <<"C", "h", "i", "c", "k", "e", "n", " ", "S", "t", "i", "r", " ",
    "F", "r", "y">>

Description3 == <<"V", "e", "g", "e", "t", "a", "b", "l", "e", "s", " ", "a",
    "n", "d", " ", "c", "h", "i", "c", "k", "e", "n", " ", "s", "t", "i",
    "r", "-", "f", "r", "i", "e", "d", " ", "w", "i", "t", "h", " ", "s",
    "o", "y", " ", "s", "a", "u", "c", "e", ".">>

\* 'chicken', 'soy sauce', 'broccoli', 'carrot', 'garlic'
Ingredients3 ==
    << <<"c", "h", "i", "c", "k", "e", "n">>,
       <<"s", "o", "y", " ", "s", "a", "u", "c", "e">>,
       <<"b", "r", "o", "c", "c", "o", "l", "i">>,
       <<"c", "a", "r", "r", "o", "t">>,
       garlic >>

SampleRecipes ==
    << [title |-> Title1, description |-> Description1, image_url |-> << >>,
        ingredients |-> Ingredients1, owner |-> alice],
       [title |-> Title2, description |-> Description2, image_url |-> << >>,
        ingredients |-> Ingredients2, owner |-> bob],
       [title |-> Title3, description |-> Description3, image_url |-> << >>,
        ingredients |-> Ingredients3, owner |-> alice] >>

\* Mutant of recipe_by_title: no recipe is ever found.
recipe_by_title_Never(rs, title) == None

\* db.query(models.Recipe).filter(models.Recipe.title == title).first()
recipe_by_title(rs, title) ==
    LET found == { id \in DOMAIN rs : rs[id].title = title }
    IN  IF found = {} THEN None ELSE Some(Min(found))

\* The loop over the sample recipes: each is created, with the id of the
\* user named as its owner, when no recipe has its title.
RECURSIVE SeedRecipes(_, _)
SeedRecipes(D, samples) ==
    IF samples = << >> THEN D
    ELSE LET r == Head(samples)
             owner == get_user_by_username(D.users, r.owner)
             existing == recipe_by_title(D.recipes, r.title)
         IN  SeedRecipes(IF existing = None
                         THEN create_recipe(D, r.title, Some(r.description),
                                            Some(r.image_url), r.ingredients,
                                            owner).db
                         ELSE D,
                         Tail(samples))

\* The user named username, created with the sample password when absent.
SeedUser(us, username, salt) ==
    IF get_user_by_username(us, username) = None
    THEN create_user(us, username, get_password_hash(password123, salt)).users
    ELSE us

seed(D, salt_alice, salt_bob) ==
    LET us == SeedUser(SeedUser(D.users, alice, salt_alice), bob, salt_bob)
    IN  SeedRecipes([D EXCEPT !.users = us], SampleRecipes)

(***************************************************************************)
(* API layer (backend/main.py).  A handler maps the tables D, the request  *)
(* and the clock to the tables after it and the response.                  *)
(***************************************************************************)
DB == [users |-> users, recipes |-> recipes, ingredients |-> ingredients]

bearer == <<"b", "e", "a", "r", "e", "r">>

Response(op, status, detail, body) ==
    [op |-> op, status |-> status, detail |-> detail, body |-> body]

Rejected(op) == Response(op, 422, "validation", None)

\* An exception that no handler catches.
ServerError(op, exception) == Response(op, 500, exception, None)

\* What the handler returns for a recipe: the row with its ingredients.
RecipeOut(D, id) ==
    LET r == D.recipes[id]
    IN  [id |-> id, title |-> r.title, description |-> r.description,
         image_url |-> r.image_url, owner_id |-> r.owner_id,
         ingredients |-> { [id |-> i, name |-> D.ingredients[i]]
                             : i \in BagToSet(r.ingredients) }]

\* response_model=schemas.Recipe: the answer is built through the Ingredient
\* schema, whose validator refuses a name that is empty after strip().
ValidOut(D, ids) ==
    \A id \in ids : \A i \in BagToSet(D.recipes[id].ingredients) :
        Strip(D.ingredients[i]) # << >>

\* The answer of an operation that returns the recipes ids (body is their
\* representation): 200, or 500 when the response model refuses one of them.
Returned(op, D, ids, body) ==
    IF ValidOut(D, ids) THEN Response(op, 200, "", Some(body))
    ELSE ServerError(op, "ResponseValidationError")

TokenOut(token) == [access_token |-> token, token_type |-> "bearer"]

\* Mutant of get_current_user: the scheme of the header is not looked at.
get_current_user_AnyScheme(authorization, us, t) ==
    IF authorization = None THEN None
    ELSE LET payload == decode_access_token(authorization[1].token, t)
         IN  IF payload = None THEN None
             ELSE IF payload[1].sub = None THEN None
             ELSE get_user_by_username(us, payload[1].sub[1])

\* Mutant of get_current_user: the subject of a good token is taken for a
\* user without looking its row up.
get_current_user_NoLookup(authorization, us, t) ==
    IF authorization = None THEN None
    ELSE LET payload == decode_access_token(authorization[1].token, t)
         IN  IF Lower(authorization[1].scheme) # bearer THEN None
             ELSE IF payload = None THEN None
             ELSE IF payload[1].sub = None THEN None
             ELSE Some(Len(us) + 1)

\* The authorization header is None or the scheme before the first blank and
\* the token after it.
get_current_user(authorization, us, t) ==
    IF authorization = None THEN None
    ELSE LET scheme == authorization[1].scheme
             token == authorization[1].token
             payload == decode_access_token(token, t)
         IN  IF Lower(scheme) # bearer THEN None
             ELSE IF payload = None THEN None
             ELSE IF payload[1].sub = None THEN None
             ELSE get_user_by_username(us, payload[1].sub[1])

signup(D, r, t, salt) ==
    LET user == UserCreate(r.body)
    IN  IF user = None THEN [db |-> D, resp |-> Rejected("signup")]
        ELSE IF get_user_by_username(D.users, user[1].username) # None
        THEN [db |-> D,
              resp |-> Response("signup", 400, "Username already taken", None)]
        ELSE LET hashed == get_password_hash(user[1].password, salt)
                 u == create_user(D.users, user[1].username, hashed)
                 token == create_access_token(Some(u.users[u.id].username), None, t)
             IN  [db |-> [D EXCEPT !.users = u.users],
                  resp |-> Response("signup", 200, "", Some(TokenOut(token)))]

\* Mutant of login: an unknown username gets an answer of its own.
login_TellsUnknownUser(D, r, t) ==
    LET user == UserCreate(r.body)
    IN  IF user = None THEN [db |-> D, resp |-> Rejected("login")]
        ELSE LET u == get_user_by_username(D.users, user[1].username)
             IN  IF u = None
                 THEN [db |-> D, resp |-> Response("login", 404, "Unknown user", None)]
                 ELSE IF ~verify_password(user[1].password,
                                          D.users[u[1]].hashed_password)
                 THEN [db |-> D,
                       resp |-> Response("login", 401, "Invalid credentials", None)]
                 ELSE [db |-> D,
                       resp |-> Response("login", 200, "", Some(TokenOut(
                           create_access_token(Some(D.users[u[1]].username), None, t))))]

login(D, r, t) ==
    LET user == UserCreate(r.body)
    IN  IF user = None THEN [db |-> D, resp |-> Rejected("login")]
        ELSE LET u == get_user_by_username(D.users, user[1].username)
             IN  IF u = None
                    \/ ~verify_password(user[1].password, D.users[u[1]].hashed_password)
                 THEN [db |-> D,
                       resp |-> Response("login", 401, "Invalid credentials", None)]
                 ELSE [db |-> D,
                       resp |-> Response("login", 200, "", Some(TokenOut(
                           create_access_token(Some(D.users[u[1]].username), None, t))))]

\* Mutant of OwnerId: the caller is never recorded.
OwnerId_Dropped(current_user) == None

\* "owner_id = current_user.id if current_user else None"
OwnerId(current_user) == IF current_user # None THEN current_user ELSE None

create_recipe_endpoint(D, r, t) ==
    LET recipe_in == RecipeCreate(r.body)
        current_user == get_current_user(r.authorization, D.users, t)
    IN  IF recipe_in = None THEN [db |-> D, resp |-> Rejected("create_recipe")]
        ELSE LET owner_id == OwnerId(current_user)
                 c == create_recipe(D, recipe_in[1].title, recipe_in[1].description,
                                    recipe_in[1].image_url, recipe_in[1].ingredients,
                                    owner_id)
             IN  [db |-> c.db,
                  resp |-> Returned("create_recipe", c.db, {c.id}, RecipeOut(c.db, c.id))]

get_recipe_endpoint(D, r) ==
    LET row == get_recipe(D.recipes, r.recipe_id)
    IN  IF row = None
        THEN [db |-> D, resp |-> Response("get_recipe", 404, "Not found", None)]
        ELSE [db |-> D,
              resp |-> Returned("get_recipe", D, {row[1]}, RecipeOut(D, row[1]))]

\* Mutant of NotAllowed: the caller is compared with the owner only when there
\* is a caller.
NotAllowed_AnonymousPasses(row, current_user) ==
    row.owner_id # None /\ current_user # None /\ row.owner_id # current_user

\* Mutant of NotAllowed: every write needs an authenticated caller.
NotAllowed_LoginRequired(row, current_user) ==
    current_user = None \/ (row.owner_id # None /\ row.owner_id # current_user)

\* "if r.owner_id and (not current_user or r.owner_id != current_user.id)"
NotAllowed(row, current_user) ==
    row.owner_id # None /\ (current_user = None \/ row.owner_id # current_user)

update_recipe_endpoint(D, r, t) ==
    LET recipe_in == RecipeCreate(r.body)
        current_user == get_current_user(r.authorization, D.users, t)
        row == get_recipe(D.recipes, r.recipe_id)
    IN  IF recipe_in = None THEN [db |-> D, resp |-> Rejected("update_recipe")]
        ELSE IF row = None
        THEN [db |-> D, resp |-> Response("update_recipe", 404, "Not found", None)]
        ELSE IF NotAllowed(D.recipes[row[1]], current_user)
        THEN [db |-> D, resp |-> Response("update_recipe", 403, "Not allowed", None)]
        ELSE LET d == update_recipe(D, row[1], Some(recipe_in[1].title),
                                    recipe_in[1].description, recipe_in[1].image_url,
                                    Some(recipe_in[1].ingredients))
             IN  [db |-> d.db,
                  resp |-> IF d.ok
                           THEN Returned("update_recipe", d.db, {row[1]},
                                         RecipeOut(d.db, row[1]))
                           ELSE ServerError("update_recipe", "StaleDataError")]

delete_recipe_endpoint(D, r, t) ==
    LET current_user == get_current_user(r.authorization, D.users, t)
        row == get_recipe(D.recipes, r.recipe_id)
    IN  IF row = None
        THEN [db |-> D, resp |-> Response("delete_recipe", 404, "Not found", None)]
        ELSE IF NotAllowed(D.recipes[row[1]], current_user)
        THEN [db |-> D, resp |-> Response("delete_recipe", 403, "Not allowed", None)]
        ELSE LET d == delete_recipe(D, row[1])
             IN  [db |-> d.db,
                  resp |-> IF d.ok
                           THEN Response("delete_recipe", 200, "", Some([ok |-> TRUE]))
                           ELSE ServerError("delete_recipe", "StaleDataError")]

\* str.split(','): the pieces of s between the commas.
RECURSIVE SplitFrom(_, _, _)
SplitFrom(s, piece, pieces) ==
    IF s = << >> THEN Append(pieces, piece)
    ELSE IF Head(s) = "," THEN SplitFrom(Tail(s), << >>, Append(pieces, piece))
    ELSE SplitFrom(Tail(s), Append(piece, Head(s)), pieces)

Split(s) == SplitFrom(s, << >>, << >>)

RecipesOut(D, ids) == [k \in DOMAIN ids |-> RecipeOut(D, ids[k])]

\* GET /recipes: skip is 0 and limit is 100 when the parameter is absent.
list_recipes_endpoint(D, r) ==
    LET skip == IF r.skip = None THEN 0 ELSE r.skip[1]
        limit == IF r.limit = None THEN DefaultLimit ELSE r.limit[1]
        ids == list_recipes(D.recipes, skip, limit)
    IN  [db |-> D,
         resp |-> Returned("list_recipes", D, Range(ids), RecipesOut(D, ids))]

\* Mutant of search: a name asked for that has no ingredient row gets one.
search_CreatesIngredients(D, r) ==
    LET q == IF r.q = None THEN << >> ELSE r.q[1]
        kept == SelectSeq(Split(q), NotBlank)
        name == IF kept = << >> THEN << >> ELSE Lower(Strip(kept[1]))
        i == create_or_get_ingredient(D.ingredients, name)
    IN  [db |-> [D EXCEPT !.ingredients = i.ingredients],
         resp |-> Response("search", 200, "", Some(<< >>))]

\* GET /search: q is '' when the parameter is absent.
search(D, r) ==
    LET q == IF r.q = None THEN << >> ELSE r.q[1]
        kept == SelectSeq(Split(q), NotBlank)
        names == [k \in DOMAIN kept |-> Strip(kept[k])]
        ids == search_recipes_by_ingredients(D, names)
    IN  [db |-> D,
         resp |-> Returned("search", D, Range(ids), RecipesOut(D, ids))]

(***************************************************************************)
(* The requests the service is driven with.                                *)
(***************************************************************************)
Procs == {1, 2}

Jwt(sub, exp, sig) == [kind |-> "jwt", sub |-> sub, exp |-> exp, sig |-> sig]
EmptyToken == [kind |-> "empty", sub |-> None, exp |-> 0, sig |-> "bad"]
MalformedToken == [kind |-> "malformed", sub |-> None, exp |-> 0, sig |-> "bad"]

Header(scheme, token) == Some([scheme |-> scheme, token |-> token])

\* Tokens signed with the process secret (issued by the service), with the
\* default lifetime counted from time 0 or with an expiry of 1.
IssuedTokens ==
    { Jwt(Some(<<"a">>), ACCESS_TOKEN_EXPIRE_MINUTES, "ok"),
      Jwt(Some(<<"A">>), ACCESS_TOKEN_EXPIRE_MINUTES, "ok"),
      Jwt(Some(<<"a">>), 1, "ok"),
      Jwt(None, ACCESS_TOKEN_EXPIRE_MINUTES, "ok") }

Tokens ==
    IssuedTokens
    \cup { Jwt(Some(<<"a">>), ACCESS_TOKEN_EXPIRE_MINUTES, "bad"),
           EmptyToken, MalformedToken }

Headers ==
    {None}
    \cup { Header(<<"B", "e", "a", "r", "e", "r">>, tk) : tk \in Tokens }
    \cup { Header(<<"B", "a", "s", "i", "c">>, tk)
             : tk \in {Jwt(Some(<<"a">>), ACCESS_TOKEN_EXPIRE_MINUTES, "ok")} }

RecipeIds == 1 .. MaxRecipes

UserBody(username, password) == [username |-> username, password |-> password]

SignupRequests ==
    { [op |-> "signup", body |-> UserBody(Some(u), Some(<<"p">>))]
        : u \in {<<"a">>, <<"A">>} }

LoginRequests ==
    { [op |-> "login", body |-> UserBody(Some(u), Some(pw))]
        : u \in {<<"a">>}, pw \in {<<"p">>, <<"q">>} }

RecipeBody(title, names) ==
    [title |-> title, description |-> None, image_url |-> None, ingredients |-> names]

CreateRequests ==
    { [op |-> "create_recipe", authorization |-> h, body |-> RecipeBody(title, None)]
        : h \in Headers, title \in {Some(<<"t">>), Some(<<" ">>)} }

GetRequests == { [op |-> "get_recipe", recipe_id |-> i] : i \in RecipeIds }

UpdateRequests ==
    { [op |-> "update_recipe", recipe_id |-> i, authorization |-> h,
       body |-> RecipeBody(title, Some(<< <<"A", " ">> >>))]
        : i \in RecipeIds, h \in Headers, title \in {Some(<<" ", "u">>), Some(<<" ">>)} }

DeleteRequests ==
    { [op |-> "delete_recipe", recipe_id |-> i, authorization |-> h]
        : i \in RecipeIds, h \in Headers }

\* Raw ingredient names that differ in case and in surrounding blanks.
RawNames ==
    { <<"a">>, <<"A">>, <<"A", " ">>, <<" ", "a">>, <<"b">>, <<" ", "B", " ">>, <<" ">> }

\* The requests of the ingredient scenarios: anonymous callers, ingredient
\* lists with names that normalize equal.
IngredientLists ==
    { << >>, << <<"A", " ">> >>, << <<"b">>, <<" ", "a">>, <<"B">> >>,
      << <<"A">>, <<"A">>, <<"B">> >> }

IngredientCreates ==
    { [op |-> "create_recipe", authorization |-> None,
       body |-> RecipeBody(Some(<<"t">>), Some(names))] : names \in IngredientLists }

IngredientUpdates ==
    { [op |-> "update_recipe", recipe_id |-> i, authorization |-> None,
       body |-> RecipeBody(Some(<<"u">>), names)]
        : i \in RecipeIds, names \in {None} \cup { Some(l) : l \in IngredientLists } }

IngredientDeletes ==
    { [op |-> "delete_recipe", recipe_id |-> i, authorization |-> None] : i \in RecipeIds }

\* The lists crud.search_recipes_by_ingredients is called with and the q of
\* GET /search.
SearchLists ==
    { << >>, << <<" ">> >>, << <<"A", " ">> >>, << <<"a">>, <<" ">>, <<" ", "B">> >>,
      << <<"b">> >> }

SearchQueries ==
    { None, Some(<< >>), Some(<<" ">>), Some(<<",">>), Some(<<"A">>),
      Some(<<"b", ",", " ", "a", ",">>) }

\* The values of skip and of limit that list_recipes is called with.
Windows == -1 .. MaxRecipes + 1

SearchRequests == { [op |-> "search", q |-> q] : q \in SearchQueries }

\* The requests of the field scenarios: anonymous creates with and without a
\* description and an image, the calls of crud.update_recipe with every
\* choice of parameters given or None, and PUT bodies that supply or leave out
\* the description, the image and the ingredients.
FieldBody(title, description, image_url, names) ==
    [title |-> title, description |-> description, image_url |-> image_url,
     ingredients |-> names]

FieldCreates ==
    { [op |-> "create_recipe", authorization |-> None, body |-> b]
        : b \in { FieldBody(Some(<<"t">>), None, None, Some(<< <<"a">> >>)),
                  FieldBody(Some(<<"t">>), Some(<<"d">>), Some(<<"i">>),
                            Some(<< <<"A">>, <<"A">> >>)) } }

FieldCalls ==
    { [op |-> "crud.update_recipe", recipe_id |-> i, title |-> title,
       description |-> description, image_url |-> image_url,
       ingredient_names |-> names]
        : i \in RecipeIds,
          title \in {None, Some(<<"u">>)},
          description \in {None, Some(<<"e">>)},
          image_url \in {None, Some(<<"j">>)},
          names \in {None, Some(<< >>), Some(<< <<"b">> >>)} }

FieldUpdates ==
    { [op |-> "update_recipe", recipe_id |-> i, authorization |-> None,
       body |-> FieldBody(Some(<<"u">>), description, image_url, names)]
        : i \in RecipeIds,
          description \in {None, Some(<<"e">>)},
          image_url \in {None, Some(<<"j">>)},
          names \in {None, Some(<< <<"b">> >>)} }

\* The calls of the token scenarios.  The claims are {"sub": "a"} or {}; the
\* lifetime is the default or the caller's 30 minutes.
TokenCalls ==
    { [op |-> "create_access_token", data |-> sub, expires_delta |-> delta]
        : sub \in {Some(<<"a">>), None}, delta \in {None, Some(CustomExpiry)} }

\* No token at all (None).
AbsentToken == [kind |-> "none", sub |-> None, exp |-> 0, sig |-> "bad"]

\* The claims and expiry of a token under a signature made with another secret.
WronglySigned(token) == [token EXCEPT !.sig = "bad"]

\* What decode_access_token is called with: the tokens issued so far, the same
\* wrongly signed, and an absent, an empty and a malformed token.
DecodeInputs(calls) ==
    { call.token : call \in calls }
    \cup { WronglySigned(call.token) : call \in calls }
    \cup {AbsentToken, EmptyToken, MalformedToken}

\* The instants the clock of the token scenarios stops at: around the expiry
\* of a token of either lifetime.
Instants ==
    (0 .. MaxTime)
    \cup {CustomExpiry - 1, CustomExpiry,
          ACCESS_TOKEN_EXPIRE_MINUTES - 1, ACCESS_TOKEN_EXPIRE_MINUTES,
          ACCESS_TOKEN_EXPIRE_MINUTES + CustomExpiry}

\* The requests of the matching scenarios: recipes are created with names in
\* upper case, with blanks around them, with a comma inside, and blank; the
\* searches ask for one or two names written in other ways.
MatchLists ==
    { << <<"A", " ">>, <<"b">> >>, << <<"B">>, <<" ">> >>, << <<"a", ",", "B">> >> }

MatchCreates ==
    { [op |-> "create_recipe", authorization |-> None,
       body |-> RecipeBody(Some(<<"t">>), Some(names))] : names \in MatchLists }

MatchUpdates ==
    { [op |-> "update_recipe", recipe_id |-> i, authorization |-> None,
       body |-> RecipeBody(Some(<<"u">>), Some(<< <<"b">> >>))] : i \in RecipeIds }

MatchNames ==
    { <<"a">>, <<" ", "A", " ">>, <<"B", " ">>, <<"A", ",", "b">>, <<" ">> }

MatchSearches ==
    { <<n>> : n \in MatchNames } \cup { <<n1, n2>> : n1 \in MatchNames, n2 \in MatchNames }

\* The query string of a list of names: the names with commas between them.
RECURSIVE Join(_)
Join(names) ==
    IF names = << >> THEN << >>
    ELSE IF Len(names) = 1 THEN names[1]
    ELSE names[1] \o <<",">> \o Join(Tail(names))

\* The requests of the scenarios of successive PUTs: one kind of recipe, and
\* PUT bodies that differ in title, description and ingredient names.
PutCreates ==
    { [op |-> "create_recipe", authorization |-> None,
       body |-> FieldBody(Some(<<"t">>), None, None, Some(<< <<"a">> >>))] }

PutUpdates ==
    { [op |-> "update_recipe", recipe_id |-> i, authorization |-> None,
       body |-> FieldBody(Some(title), description, None, Some(names))]
        : i \in RecipeIds, title \in {<<"u">>, <<"v">>},
          description \in {None, Some(<<"d">>)},
          names \in {<< <<"a">> >>, << <<"b">> >>, << <<"A">>, <<"A">> >>} }

\* The raw names and the POST /recipes bodies of the scenarios of blank
\* ingredient names: the empty string, blanks only, and names with letters.
BlankNames == { << >>, <<" ">>, <<" ", " ">>, <<"a">>, <<" ", "A">> }

BlankLists ==
    { << << >> >>, << <<"a">>, <<" ">> >>, << <<" ">>, << >> >>, << <<"b">> >> }

BlankCreates ==
    { [op |-> "create_recipe", authorization |-> None,
       body |-> RecipeBody(Some(<<"t">>), Some(names))] : names \in BlankLists }

\* The requests made around the runs of seed(): a signup that takes a sample
\* username, a POST /recipes that takes a sample title or another, and the
\* deletion of a recipe.
SeedSignups ==
    { [op |-> "signup", body |-> UserBody(Some(alice), Some(<<"p">>))] }

SeedCreates ==
    { [op |-> "create_recipe", authorization |-> None,
       body |-> RecipeBody(Some(title), Some(<< garlic >>))]
        : title \in {Title1, <<"t">>} }

SeedDeletes ==
    { [op |-> "crud.delete_recipe", recipe_id |-> i] : i \in 1 .. MaxSeedId }

\* GET /recipes of the read scenarios: skip and limit absent or 1.
ReadLists ==
    { [op |-> "list_recipes", skip |-> skip, limit |-> limit]
        : skip \in {None, Some(1)}, limit \in {None, Some(1)} }

\* The requests of the validation scenarios: every field that is required is
\* there, missing, empty or of blanks only; the caller is anonymous or user a.
FieldValues(v) == {Some(v), Some(<<" ">>), Some(<< >>), None}

ValidationSignups ==
    { [op |-> "signup", body |-> UserBody(u, pw)]
        : u \in FieldValues(<<"a">>), pw \in FieldValues(<<"p">>) }

ValidationLogins ==
    { [op |-> "login", body |-> UserBody(u, pw)]
        : u \in FieldValues(<<"a">>), pw \in FieldValues(<<"p">>) }

ValidationHeaders ==
    {None, Header(bearer, Jwt(Some(<<"a">>), ACCESS_TOKEN_EXPIRE_MINUTES, "ok"))}

ValidationCreates ==
    { [op |-> "create_recipe", authorization |-> h,
       body |-> RecipeBody(title, Some(<< <<"a">> >>))]
        : h \in ValidationHeaders, title \in FieldValues(<<"t">>) }

ValidationUpdates ==
    { [op |-> "update_recipe", recipe_id |-> i, authorization |-> h,
       body |-> RecipeBody(title, Some(<< <<"b">> >>))]
        : i \in RecipeIds, h \in ValidationHeaders, title \in FieldValues(<<"u">>) }

\* The requests of the listing scenarios: anonymous creates and deletes, and
\* GET /recipes with skip and limit absent, negative, and up to past the end.
ListedIds == 1 .. MaxListed

ListWindows == {None} \cup { Some(n) : n \in -1 .. MaxListed + 1 }

ListCreates ==
    { [op |-> "create_recipe", authorization |-> None,
       body |-> RecipeBody(Some(<<"t">>), None)] }

ListDeletes ==
    { [op |-> "delete_recipe", recipe_id |-> i, authorization |-> None] : i \in ListedIds }

ListRequests ==
    { [op |-> "list_recipes", skip |-> skip, limit |-> limit]
        : skip \in ListWindows, limit \in ListWindows }

\* The signup and login bodies of the credential scenarios: usernames that
\* differ in case or in surrounding blanks, blank and missing fields.
CredentialBodies ==
    { UserBody(u, pw)
        : u \in {Some(<<"a">>), Some(<<"A">>), Some(<<" ", "a">>), Some(<<" ">>), None},
          pw \in {Some(<<"p">>), Some(<<"q">>), Some(<< >>)} }

CredentialSignups == { [op |-> "signup", body |-> b] : b \in CredentialBodies }

CredentialLogins == { [op |-> "login", body |-> b] : b \in CredentialBodies }

(***************************************************************************)
(* The sequential service: a request is handled as a whole, its response   *)
(* is delivered, and only then is the next one taken.                      *)
(***************************************************************************)
EmptyTable == [i \in {} |-> None]

Init ==
    /\ users = << >>
    /\ recipes = EmptyTable
    /\ ingredients = << >>
    /\ now = 0
    /\ req = None
    /\ resp = None
    /\ pc = [p \in Procs |-> "idle"]
    /\ sess = [p \in Procs |-> None]
    /\ issued = {}

Idle == req = None /\ resp = None /\ \A p \in Procs : pc[p] = "idle"

Answer(r, out) ==
    /\ users' = out.db.users
    /\ recipes' = out.db.recipes
    /\ ingredients' = out.db.ingredients
    /\ req' = Some(r)
    /\ resp' = Some(out.resp)
    /\ UNCHANGED <<now, pc, sess, issued>>

SignupFrom(requests) ==
    /\ Idle
    /\ \E r \in requests, salt \in Salts : Answer(r, signup(DB, r, now, salt))

LoginFrom(requests) ==
    /\ Idle
    /\ \E r \in requests : Answer(r, login(DB, r, now))

Signup == SignupFrom(SignupRequests)

Login == LoginFrom(LoginRequests)

CreateRecipeFrom(requests) ==
    /\ Idle
    /\ Cardinality(DOMAIN recipes) < MaxRecipes
    /\ \E r \in requests : Answer(r, create_recipe_endpoint(DB, r, now))

GetRecipe ==
    /\ Idle
    /\ \E r \in GetRequests : Answer(r, get_recipe_endpoint(DB, r))

UpdateRecipeFrom(requests) ==
    /\ Idle
    /\ \E r \in requests : Answer(r, update_recipe_endpoint(DB, r, now))

DeleteRecipeFrom(requests) ==
    /\ Idle
    /\ \E r \in requests : Answer(r, delete_recipe_endpoint(DB, r, now))

CreateRecipe == CreateRecipeFrom(CreateRequests)

UpdateRecipe == UpdateRecipeFrom(UpdateRequests)

DeleteRecipe == DeleteRecipeFrom(DeleteRequests)

Reply ==
    /\ resp # None
    /\ req' = None
    /\ resp' = None
    /\ UNCHANGED <<users, recipes, ingredients, now, pc, sess, issued>>

Tick ==
    /\ Idle
    /\ now < MaxTime
    /\ now' = now + 1
    /\ UNCHANGED <<users, recipes, ingredients, req, resp, pc, sess, issued>>

Next ==
    \/ Signup
    \/ Login
    \/ CreateRecipe
    \/ GetRecipe
    \/ UpdateRecipe
    \/ DeleteRecipe
    \/ Reply
    \/ Tick

Spec == Init /\ [][Next]_vars

(***************************************************************************)
(* The credential scenarios: signup and login alone, with every body of    *)
(* CredentialBodies.                                                       *)
(***************************************************************************)
CredentialSignup == SignupFrom(CredentialSignups)

CredentialLogin == LoginFrom(CredentialLogins)

AuthNext ==
    \/ CredentialSignup
    \/ CredentialLogin
    \/ Reply
    \/ Tick

AuthSpec == Init /\ [][AuthNext]_vars

(***************************************************************************)
(* The ingredient scenarios: anonymous callers create, read, update and    *)
(* delete recipes with ingredient lists, and crud.create_or_get_ingredient *)
(* is called on its own on the names of RawNames.                          *)
(***************************************************************************)
CreateOrGetIngredientFrom(raws) ==
    /\ Idle
    /\ \E raw \in raws :
         LET i == create_or_get_ingredient(ingredients, raw)
         IN  /\ ingredients' = i.ingredients
             /\ req' = Some([op |-> "create_or_get_ingredient", name |-> raw])
             /\ resp' = Some(Response("create_or_get_ingredient", 200, "",
                                      Some([id |-> i.id, name |-> i.ingredients[i.id]])))
    /\ UNCHANGED <<users, recipes, now, pc, sess, issued>>

CreateOrGetIngredient == CreateOrGetIngredientFrom(RawNames)

\* crud.search_recipes_by_ingredients called on its own.
SearchByIngredients ==
    /\ Idle
    /\ \E l \in SearchLists :
         /\ req' = Some([op |-> "search_recipes_by_ingredients", ingredient_list |-> l])
         /\ resp' = Some(Response("search_recipes_by_ingredients", 200, "",
                                  Some(RecipesOut(DB, search_recipes_by_ingredients(DB, l)))))
    /\ UNCHANGED <<users, recipes, ingredients, now, pc, sess, issued>>

Search ==
    /\ Idle
    /\ \E r \in SearchRequests : Answer(r, search(DB, r))

IngredientCreate == CreateRecipeFrom(IngredientCreates)

IngredientUpdate == UpdateRecipeFrom(IngredientUpdates)

IngredientDelete == DeleteRecipeFrom(IngredientDeletes)

IngredientNext ==
    \/ CreateOrGetIngredient
    \/ IngredientCreate
    \/ IngredientUpdate
    \/ IngredientDelete
    \/ GetRecipe
    \/ SearchByIngredients
    \/ Search
    \/ Reply

IngredientSpec == Init /\ [][IngredientNext]_vars

(***************************************************************************)
(* The field scenarios: recipes are created, crud.update_recipe is called  *)
(* on its own on a recipe that get_recipe has found, and recipes are       *)
(* updated with PUT.                                                       *)
(***************************************************************************)
FieldCreate == CreateRecipeFrom(FieldCreates)

UpdateRecipeCall ==
    /\ Idle
    /\ \E c \in FieldCalls :
         /\ get_recipe(recipes, c.recipe_id) # None
         /\ LET d == update_recipe(DB, c.recipe_id, c.title, c.description,
                                   c.image_url, c.ingredient_names)
            IN  Answer(c, [db |-> d.db,
                           resp |-> IF d.ok
                                    THEN Response(c.op, 200, "",
                                                  Some(RecipeOut(d.db, c.recipe_id)))
                                    ELSE ServerError(c.op, "StaleDataError")])

FieldUpdate == UpdateRecipeFrom(FieldUpdates)

FieldNext ==
    \/ FieldCreate
    \/ UpdateRecipeCall
    \/ FieldUpdate
    \/ Reply

FieldSpec == Init /\ [][FieldNext]_vars

(***************************************************************************)
(* The token scenarios: tokens are issued, time passes, tokens are decoded.*)
(***************************************************************************)
CreateAccessToken ==
    /\ Idle
    /\ Cardinality(issued) < MaxIssued
    /\ \E call \in TokenCalls :
         LET token == create_access_token(call.data, call.expires_delta, now)
         IN  /\ req' = Some(call)
             /\ resp' = Some(Response(call.op, 200, "", Some(token)))
             /\ issued' = issued \cup { [data |-> call.data,
                                         expires_delta |-> call.expires_delta,
                                         at |-> now, token |-> token] }
    /\ UNCHANGED <<users, recipes, ingredients, now, pc, sess>>

DecodeAccessToken ==
    /\ Idle
    /\ \E token \in DecodeInputs(issued) :
         /\ req' = Some([op |-> "decode_access_token", token |-> token])
         /\ resp' = Some(Response("decode_access_token", 200, "",
                                  decode_access_token(token, now)))
    /\ UNCHANGED <<users, recipes, ingredients, now, pc, sess, issued>>

Elapse ==
    /\ Idle
    /\ \E t \in Instants : t > now /\ now' = t
    /\ UNCHANGED <<users, recipes, ingredients, req, resp, pc, sess, issued>>

TokenNext ==
    \/ CreateAccessToken
    \/ DecodeAccessToken
    \/ Elapse
    \/ Reply

TokenSpec == Init /\ [][TokenNext]_vars

(***************************************************************************)
(* The matching scenarios: recipes are created, replaced and deleted, and  *)
(* searched by the names they were created with, written differently.      *)
(***************************************************************************)
MatchCreate == CreateRecipeFrom(MatchCreates)

MatchUpdate == UpdateRecipeFrom(MatchUpdates)

MatchDelete == DeleteRecipeFrom(IngredientDeletes)

MatchByIngredients ==
    /\ Idle
    /\ \E l \in MatchSearches :
         /\ req' = Some([op |-> "search_recipes_by_ingredients", ingredient_list |-> l])
         /\ resp' = Some(Response("search_recipes_by_ingredients", 200, "",
                                  Some(RecipesOut(DB, search_recipes_by_ingredients(DB, l)))))
    /\ UNCHANGED <<users, recipes, ingredients, now, pc, sess, issued>>

MatchSearch ==
    /\ Idle
    /\ \E l \in MatchSearches :
         LET r == [op |-> "search", q |-> Some(Join(l))] IN Answer(r, search(DB, r))

MatchNext ==
    \/ MatchCreate
    \/ MatchUpdate
    \/ MatchDelete
    \/ MatchByIngredients
    \/ MatchSearch
    \/ Reply

MatchSpec == Init /\ [][MatchNext]_vars

(***************************************************************************)
(* The scenarios of successive PUTs on a recipe.                           *)
(***************************************************************************)
PutCreate == CreateRecipeFrom(PutCreates)

PutUpdate == UpdateRecipeFrom(PutUpdates)

PutNext ==
    \/ PutCreate
    \/ PutUpdate
    \/ GetRecipe
    \/ Reply

PutSpec == Init /\ [][PutNext]_vars

(***************************************************************************)
(* The validation scenarios: signup, login, create and update with fields  *)
(* that are missing, empty or blank.                                       *)
(***************************************************************************)
ValidationSignup == SignupFrom(ValidationSignups)

ValidationLogin == LoginFrom(ValidationLogins)

ValidationCreate == CreateRecipeFrom(ValidationCreates)

ValidationUpdate == UpdateRecipeFrom(ValidationUpdates)

ValidationNext ==
    \/ ValidationSignup
    \/ ValidationLogin
    \/ ValidationCreate
    \/ ValidationUpdate
    \/ Reply

ValidationSpec == Init /\ [][ValidationNext]_vars

(***************************************************************************)
(* The listing scenarios: up to MaxListed recipes are created and deleted  *)
(* and listed with GET /recipes.                                           *)
(***************************************************************************)
ListCreate ==
    /\ Idle
    /\ Cardinality(DOMAIN recipes) < MaxListed
    /\ \E r \in ListCreates : Answer(r, create_recipe_endpoint(DB, r, now))

ListDelete == DeleteRecipeFrom(ListDeletes)

ListRecipes ==
    /\ Idle
    /\ \E r \in ListRequests : Answer(r, list_recipes_endpoint(DB, r))

ListNext ==
    \/ ListCreate
    \/ ListDelete
    \/ ListRecipes
    \/ Reply

ListSpec == Init /\ [][ListNext]_vars

(***************************************************************************)
(* The read scenarios: users and recipes are written by anonymous and      *)
(* authenticated callers, and read by login, get, list and search.         *)
(***************************************************************************)
ReadList ==
    /\ Idle
    /\ \E r \in ReadLists : Answer(r, list_recipes_endpoint(DB, r))

ReadNext ==
    \/ Signup
    \/ Login
    \/ ValidationCreate
    \/ ValidationUpdate
    \/ IngredientDelete
    \/ GetRecipe
    \/ ReadList
    \/ Search
    \/ Reply

ReadSpec == Init /\ [][ReadNext]_vars

(***************************************************************************)
(* The scenarios of blank ingredient names: direct calls of                *)
(* create_or_get_ingredient and creates whose list has blank entries.      *)
(***************************************************************************)
BlankIngredient == CreateOrGetIngredientFrom(BlankNames)

BlankCreate == CreateRecipeFrom(BlankCreates)

BlankNext ==
    \/ BlankIngredient
    \/ BlankCreate
    \/ GetRecipe
    \/ Reply

BlankSpec == Init /\ [][BlankNext]_vars

(***************************************************************************)
(* The scenarios of the sample data: seed() is run, any number of times,   *)
(* on an empty database and on one that requests have written.             *)
(***************************************************************************)
\* The sample recipes whose title no recipe has.
Missing(rs) ==
    { k \in DOMAIN SampleRecipes : recipe_by_title(rs, SampleRecipes[k].title) = None }

\* A run of the script; it is not started when the recipes it would create
\* would have ids above MaxSeedId.
SeedRun ==
    /\ Idle
    /\ \/ Missing(recipes) = {}
       \/ NewRecipeId(recipes) + Cardinality(Missing(recipes)) - 1 <= MaxSeedId
    /\ \E salt_alice, salt_bob \in Salts :
         Answer([op |-> "seed"],
                [db |-> seed(DB, salt_alice, salt_bob),
                 resp |-> Response("seed", 200, "", None)])

SeedSignup == SignupFrom(SeedSignups)

SeedCreate == CreateRecipeFrom(SeedCreates)

DeleteRecipeCall ==
    /\ Idle
    /\ \E c \in SeedDeletes :
         /\ get_recipe(recipes, c.recipe_id) # None
         /\ LET d == delete_recipe(DB, c.recipe_id)
            IN  Answer(c, [db |-> d.db,
                           resp |-> IF d.ok THEN Response(c.op, 200, "", None)
                                    ELSE ServerError(c.op, "StaleDataError")])

SeedNext ==
    \/ SeedRun
    \/ SeedSignup
    \/ SeedCreate
    \/ DeleteRecipeCall
    \/ Reply

SeedSpec == Init /\ [][SeedNext]_vars

(***************************************************************************)
(* The concurrent service.  Each request runs in a session of its own      *)
(* against the shared tables; a step is one interaction of a session with  *)
(* the tables: a query, which reads what is committed, or a commit, which  *)
(* flushes what the session has pending and makes it visible to all, or    *)
(* fails as a whole and leaves the tables as they were.  The reload of an  *)
(* object that a commit has expired is taken together with that commit.    *)
(*                                                                         *)
(* sess[p] is None while p is idle; otherwise it holds the request r, the  *)
(* id of the recipe it works on, the recipe fields set but not yet flushed *)
(* (dirty), recipe.ingredients as loaded (baseline) and as it stands in    *)
(* the session (current), the names still to resolve, whether the request  *)
(* has committed a change of its recipe, and the response.                 *)
(***************************************************************************)
ConcSignups ==
    { [op |-> "signup", body |-> UserBody(Some(u), Some(<<"p">>))]
        : u \in {<<"a">>, <<" ", "a">>, <<"b">>} }

ConcCreates ==
    { [op |-> "create_recipe", authorization |-> None, body |-> RecipeBody(Some(<<"t">>), names)]
        : names \in {Some(<< <<"a">> >>), Some(<< <<"A">>, <<"b">> >>)} }

ConcUpdates ==
    { [op |-> "update_recipe", recipe_id |-> i, authorization |-> None,
       body |-> RecipeBody(Some(<<"u">>), names)]
        : i \in RecipeIds, names \in {Some(<< <<"b">>, <<"c">> >>)} }

ConcGets == { [op |-> "get_recipe", recipe_id |-> i] : i \in RecipeIds }

Session(r) ==
    [r |-> r, recipe_id |-> 0, dirty |-> None, baseline |-> {}, current |-> EmptyBag,
     names |-> << >>, committed |-> FALSE, resp |-> None]

S(p) == sess[p][1]

\* The flush of a session's pending changes of its recipe: the UPDATE of the
\* row, the DELETE of the association rows taken out of the collection and the
\* INSERT of those put into it.  ok = FALSE is the StaleDataError of a statement
\* that does not find its rows.
Flush(rs, s) ==
    LET id == s.recipe_id
        f == FlushAssociations(rs[id].ingredients, s.baseline, s.current)
    IN  IF id \notin DOMAIN rs \/ ~f.ok
        THEN [ok |-> FALSE, recipes |-> rs]
        ELSE [ok |-> TRUE,
              recipes |-> [rs EXCEPT ![id] =
                  [@ EXCEPT !.title = IF s.dirty = None THEN @ ELSE s.dirty[1].title,
                            !.ingredients = f.rows]]]

Finish(p, s, response) ==
    /\ pc' = [pc EXCEPT ![p] = "done"]
    /\ sess' = [sess EXCEPT ![p] = Some([s EXCEPT !.resp = Some(response)])]

Continue(p, s, label) ==
    /\ pc' = [pc EXCEPT ![p] = label]
    /\ sess' = [sess EXCEPT ![p] = Some(s)]

\* signup, main.py line 47: the lookup of the username.
SignupLookup(p) ==
    /\ pc[p] = "idle"
    /\ \E r \in ConcSignups :
         LET user == UserCreate(r.body)[1]
         IN  IF get_user_by_username(users, user.username) # None
             THEN Finish(p, Session(r),
                         Response("signup", 400, "Username already taken", None))
             ELSE Continue(p, Session(r), "signup_insert")
    /\ UNCHANGED <<users, recipes, ingredients, now, req, resp, issued>>

\* signup, main.py lines 50-53: create_user adds the row and commits.
SignupInsert(p) ==
    /\ pc[p] = "signup_insert"
    /\ \E salt \in Salts :
         LET user == UserCreate(S(p).r.body)[1]
             u == create_user(users, user.username,
                              get_password_hash(user.password, salt))
         IN  IF u.ok
             THEN /\ users' = u.users
                  /\ Finish(p, S(p), Response("signup", 200, "", Some(TokenOut(
                         create_access_token(Some(user.username), None, now)))))
             ELSE /\ users' = users
                  /\ Finish(p, S(p), ServerError("signup", "IntegrityError"))
    /\ UNCHANGED <<recipes, ingredients, now, req, resp, issued>>

\* create_recipe, crud.py lines 25-27: the recipe row is added and committed.
CreateInsertFrom(p, requests) ==
    /\ pc[p] = "idle"
    /\ Cardinality(DOMAIN recipes) < MaxRecipes
    /\ \E r \in requests :
         LET recipe_in == RecipeCreate(r.body)[1]
             owner_id == OwnerId(get_current_user(r.authorization, users, now))
             row == [title |-> recipe_in.title, description |-> recipe_in.description,
                     image_url |-> recipe_in.image_url, owner_id |-> owner_id,
                     ingredients |-> EmptyBag]
         IN  /\ recipes' = InsertRecipe(recipes, row)
             /\ Continue(p, [Session(r) EXCEPT !.recipe_id = NewRecipeId(recipes),
                                               !.names = recipe_in.ingredients,
                                               !.committed = TRUE],
                         "resolve")
    /\ UNCHANGED <<users, ingredients, now, req, resp, issued>>

CreateInsert(p) == CreateInsertFrom(p, ConcCreates)

\* update_recipe, main.py lines 82-87 and crud.py lines 52-60: the recipe is
\* loaded and checked, its fields are set and its collection is emptied, all
\* in the session.
UpdateGet(p) ==
    /\ pc[p] = "idle"
    /\ \E r \in ConcUpdates :
         LET recipe_in == RecipeCreate(r.body)[1]
             current_user == get_current_user(r.authorization, users, now)
         IN  IF get_recipe(recipes, r.recipe_id) = None
             THEN Finish(p, Session(r), Response("update_recipe", 404, "Not found", None))
             ELSE IF NotAllowed(recipes[r.recipe_id], current_user)
             THEN Finish(p, Session(r), Response("update_recipe", 403, "Not allowed", None))
             ELSE Continue(p, [Session(r) EXCEPT
                                 !.recipe_id = r.recipe_id,
                                 !.dirty = IF recipe_in.title = recipes[r.recipe_id].title
                                           THEN None
                                           ELSE Some([title |-> recipe_in.title]),
                                 !.baseline = BagToSet(recipes[r.recipe_id].ingredients),
                                 !.current = EmptyBag,
                                 !.names = recipe_in.ingredients],
                           "resolve")
    /\ UNCHANGED <<users, recipes, ingredients, now, req, resp, issued>>

\* create_or_get_ingredient, crud.py lines 15-17, and the append of an
\* ingredient that was found (crud.py lines 29 and 62).
Resolve(p) ==
    /\ pc[p] = "resolve"
    /\ S(p).names # << >>
    /\ LET ingredient == FindIngredient(ingredients, Normalize(Head(S(p).names)))
       IN  IF ingredient = None
           THEN Continue(p, S(p), "insert_ingredient")
           ELSE Continue(p, [S(p) EXCEPT !.current = @ (+) One(ingredient[1]),
                                       !.names = Tail(@)],
                         "resolve")
    /\ UNCHANGED <<users, recipes, ingredients, now, req, resp, issued>>

\* create_or_get_ingredient, crud.py lines 18-21: the new row is added and the
\* session commits, which flushes the recipe's pending changes with it; then
\* the ingredient is appended (crud.py lines 29 and 62).
InsertIngredientCommit(p) ==
    /\ pc[p] = "insert_ingredient"
    /\ LET i == InsertIngredient(ingredients, Normalize(Head(S(p).names)))
           f == Flush(recipes, S(p))
       IN  IF i.ok /\ f.ok
           THEN /\ ingredients' = i.ingredients
                /\ recipes' = f.recipes
                /\ Continue(p, [S(p) EXCEPT
                                  !.dirty = None,
                                  !.committed = TRUE,
                                  !.baseline =
                                      BagToSet(f.recipes[S(p).recipe_id].ingredients),
                                  !.current =
                                      SetToBag(BagToSet(f.recipes[S(p).recipe_id].ingredients))
                                        (+) One(i.id),
                                  !.names = Tail(@)],
                            "resolve")
           ELSE /\ UNCHANGED <<ingredients, recipes>>
                /\ Finish(p, S(p), ServerError(S(p).r.op,
                       IF i.ok THEN "StaleDataError" ELSE "IntegrityError"))
    /\ UNCHANGED <<users, now, req, resp, issued>>

\* The commit and refresh that end create_recipe (crud.py lines 30-32) and
\* update_recipe (crud.py lines 63-65).
FinalCommit(p) ==
    /\ pc[p] = "resolve"
    /\ S(p).names = << >>
    /\ LET f == Flush(recipes, S(p))
       IN  IF f.ok
           THEN /\ recipes' = f.recipes
                /\ Finish(p, S(p), Returned(S(p).r.op, [DB EXCEPT !.recipes = f.recipes],
                       {S(p).recipe_id},
                       RecipeOut([DB EXCEPT !.recipes = f.recipes], S(p).recipe_id)))
           ELSE /\ recipes' = recipes
                /\ Finish(p, S(p), ServerError(S(p).r.op, "StaleDataError"))
    /\ UNCHANGED <<users, ingredients, now, req, resp, issued>>

\* get_recipe, main.py lines 73-78.
Get(p) ==
    /\ pc[p] = "idle"
    /\ \E r \in ConcGets : Finish(p, Session(r), get_recipe_endpoint(DB, r).resp)
    /\ UNCHANGED <<users, recipes, ingredients, now, req, resp, issued>>

ConcReply(p) ==
    /\ pc[p] = "done"
    /\ pc' = [pc EXCEPT ![p] = "idle"]
    /\ sess' = [sess EXCEPT ![p] = None]
    /\ UNCHANGED <<users, recipes, ingredients, now, req, resp, issued>>

ConcNext ==
    \E p \in Procs :
        \/ CreateInsert(p)
        \/ UpdateGet(p)
        \/ Resolve(p)
        \/ InsertIngredientCommit(p)
        \/ FinalCommit(p)
        \/ Get(p)
        \/ ConcReply(p)

ConcSpec == Init /\ [][ConcNext]_vars

\* Creates that meet on the last name of a list of three.
RaceCreates ==
    { [op |-> "create_recipe", authorization |-> None, body |-> RecipeBody(Some(<<"t">>), names)]
        : names \in {Some(<< <<"c">> >>), Some(<< <<"a">>, <<"b">>, <<"C">> >>)} }

RaceCreate(p) == CreateInsertFrom(p, RaceCreates)

RaceNext ==
    \E p \in Procs :
        \/ RaceCreate(p)
        \/ Resolve(p)
        \/ InsertIngredientCommit(p)
        \/ FinalCommit(p)
        \/ ConcReply(p)

RaceSpec == Init /\ [][RaceNext]_vars

\* Concurrent signups.
SignupNext ==
    \E p \in Procs :
        \/ SignupLookup(p)
        \/ SignupInsert(p)
        \/ ConcReply(p)

SignupSpec == Init /\ [][SignupNext]_vars

UniqueNames(ings) == \A i, j \in DOMAIN ings : ings[i] = ings[j] => i = j

\* The pairs of raw names with equal normalized form, with that form.
SameNormalized ==
    { pair \in { <<n1, n2, Normalize(n1)>> : n1 \in RawNames, n2 \in RawNames } :
        Normalize(pair[2]) = pair[3] }

\* C10: in every state of the sequential service every ingredient row's name
\* is in normalized form and no two rows share a name, and for all raw names
\* n1, n2 with equal normalized form create_or_get_ingredient(n1) followed by
\* create_or_get_ingredient(n2) returns the same ingredient row, which bears
\* the normalized name, the second call leaving the table as it is.
C10_OneRowPerNormalizedName ==
    /\ \A i \in DOMAIN ingredients : Normalize(ingredients[i]) = ingredients[i]
    /\ UniqueNames(ingredients)
    /\ \A pair \in SameNormalized :
         LET first == create_or_get_ingredient(ingredients, pair[1])
             second == create_or_get_ingredient(first.ingredients, pair[2])
         IN  /\ first.ok /\ second.ok
             /\ second.id = first.id
             /\ second.ingredients = first.ingredients
             /\ first.ingredients[first.id] = pair[3]

\* C10 witness: an update given the names "b", " a", "B" has been answered and
\* the table holds one row "b" and one row "a".
C10_Witness ==
    /\ req # None
    /\ req[1].op = "update_recipe"
    /\ resp[1].status = 200
    /\ req[1].recipe_id \in DOMAIN recipes
    /\ req[1].body.ingredients = Some(<< <<"b">>, <<" ", "a">>, <<"B">> >>)
    /\ Cardinality(BagToSet(recipes[req[1].recipe_id].ingredients)) = 2
    /\ \E i, j \in DOMAIN ingredients :
         ingredients[i] = <<"b">> /\ ingredients[j] = <<"a">>

(***************************************************************************)
(* Properties of the recipes' ingredient lists.  In a step that handles a   *)
(* request req' is the request, resp' its response, and the unprimed       *)
(* tables are the ones the handler ran on.                                 *)
(***************************************************************************)
Handles(ops) == req = None /\ req' # None /\ req'[1].op \in ops

WellFormedRecipe(body) == body.title # None /\ Strip(body.title[1]) # << >>

Answered(ops) ==
    /\ req = None
    /\ req' # None
    /\ req'[1].op \in ops
    /\ resp'[1].status = 200

\* The given names after normalization, as ingredient ids of the table ings.
NamedIds(ings, names) ==
    { i \in DOMAIN ings : \E k \in DOMAIN names : ings[i] = Normalize(names[k]) }

\* C11: after a create, and after an update with an ingredient list, the
\* recipe has exactly one association row for every distinct normalized name
\* of the list, also when the list repeats a name.
C11_OneAssociationPerName ==
    [][ Answered({"create_recipe", "update_recipe"})
        => LET id == resp'[1].body[1].id
               names == RecipeCreate(req'[1].body)[1].ingredients
           IN  recipes'[id].ingredients = SetToBag(NamedIds(ingredients', names))
      ]_vars

\* The normalized names of a list, the blank ones left out.
Wanted(names) == { Normalize(names[k]) : k \in { j \in DOMAIN names : NotBlank(names[j]) } }

NamesOf(rs, ings, id) == { ings[i] : i \in BagToSet(rs[id].ingredients) }

Found(response) == { response.body[1][k].id : k \in DOMAIN response.body[1] }

BlankQuery(q) == q = None \/ \A k \in DOMAIN q[1] : IsSpace(q[1][k])

\* C12: search_recipes_by_ingredients(L) returns, each once and as it is
\* stored, exactly the recipes whose ingredients include every normalized
\* non-blank name of L, and none when L has no non-blank name; GET /search
\* without q or with a blank q returns the empty list; neither changes a table.
C12_SearchIsSuperset ==
    [][ /\ Answered({"search_recipes_by_ingredients"})
           => LET L == req'[1].ingredient_list
                  out == resp'[1].body[1]
              IN  /\ Found(resp'[1])
                       = IF Wanted(L) = {} THEN {}
                         ELSE { id \in DOMAIN recipes :
                                  Wanted(L) \subseteq NamesOf(recipes, ingredients, id) }
                  /\ Len(out) = Cardinality(Found(resp'[1]))
                  /\ \A k \in DOMAIN out : out[k] = RecipeOut(DB, out[k].id)
                  /\ UNCHANGED dbvars
        /\ Handles({"search"})
           => /\ resp'[1].status = 200
              /\ BlankQuery(req'[1].q) => resp'[1].body[1] = << >>
              /\ UNCHANGED dbvars
      ]_vars

\* C12 witness: a search has found a recipe that has an ingredient besides
\* the ones asked for, and has not found another recipe that has ingredients.
C12_Witness ==
    /\ req # None
    /\ req[1].op = "search_recipes_by_ingredients"
    /\ \E id \in Found(resp[1]) :
         /\ Wanted(req[1].ingredient_list) \subseteq NamesOf(recipes, ingredients, id)
         /\ Wanted(req[1].ingredient_list) # NamesOf(recipes, ingredients, id)
    /\ \E id \in DOMAIN recipes :
         id \notin Found(resp[1]) /\ NamesOf(recipes, ingredients, id) # {}

\* C13: an update with an ingredient list, the empty one included, replaces
\* the recipe's associations: afterwards the recipe's ingredients are the
\* ones named by the list after normalization and no other.
C13_UpdateReplacesIngredients ==
    [][ ( /\ Handles({"update_recipe"})
          /\ WellFormedRecipe(req'[1].body)
          /\ req'[1].body.ingredients # None
          /\ req'[1].recipe_id \in DOMAIN recipes
          /\ ~NotAllowed(recipes[req'[1].recipe_id],
                         get_current_user(req'[1].authorization, users, now)) )
        => /\ req'[1].recipe_id \in DOMAIN recipes'
           /\ BagToSet(recipes'[req'[1].recipe_id].ingredients)
                = NamedIds(ingredients', req'[1].body.ingredients[1])
      ]_vars

\* What a call of crud.update_recipe with the parameters of c makes of the
\* row old: the fields given are set, the others are kept.
FieldsSet(old, new, c) ==
    /\ new.title = IF c.title = None THEN old.title ELSE c.title[1]
    /\ new.description = IF c.description = None THEN old.description ELSE c.description
    /\ new.image_url = IF c.image_url = None THEN old.image_url ELSE c.image_url
    /\ new.owner_id = old.owner_id

\* C14: in crud.update_recipe every parameter is optional on its own: one
\* that is None leaves its field as it was and one that is given is set; the
\* owner never changes; with all four None the recipe stays as it was.
C14_UpdateParametersOptional ==
    [][ Handles({"crud.update_recipe"})
        => LET c == req'[1]
               old == recipes[c.recipe_id]
               new == recipes'[c.recipe_id]
           IN  /\ FieldsSet(old, new, c)
               /\ IF c.ingredient_names = None
                  THEN new.ingredients = old.ingredients /\ ingredients' = ingredients
                  ELSE BagToSet(new.ingredients)
                         = NamedIds(ingredients', c.ingredient_names[1])
               /\ \A id \in DOMAIN recipes \ {c.recipe_id} :
                    id \in DOMAIN recipes' /\ recipes'[id] = recipes[id]
      ]_vars

\* C15: on PUT /recipes/{id} a description, an image_url or an ingredient
\* list that the body does not supply keeps the value it had on the recipe.
C15_PutKeepsFieldsNotSupplied ==
    [][ ( /\ Handles({"update_recipe"})
          /\ WellFormedRecipe(req'[1].body)
          /\ req'[1].recipe_id \in DOMAIN recipes )
        => LET body == req'[1].body
               old == recipes[req'[1].recipe_id]
               new == recipes'[req'[1].recipe_id]
           IN  /\ body.description = None => new.description = old.description
               /\ body.image_url = None => new.image_url = old.image_url
               /\ body.ingredients = None => new.ingredients = old.ingredients
      ]_vars

DBAfter == [users |-> users', recipes |-> recipes', ingredients |-> ingredients']

\* C16: a delete of a recipe removes its row with its associations, so that
\* get_recipe finds nothing under its id and no list and no search returns
\* it, while every ingredient row stays and every other recipe is unchanged.
C16_DeleteRemovesRecipeOnly ==
    [][ ( /\ Handles({"delete_recipe"})
          /\ req'[1].recipe_id \in DOMAIN recipes
          /\ ~NotAllowed(recipes[req'[1].recipe_id],
                         get_current_user(req'[1].authorization, users, now)) )
        => LET id == req'[1].recipe_id
           IN  /\ get_recipe(recipes', id) = None
               /\ \A skip \in Windows, limit \in Windows :
                    id \notin Range(list_recipes(recipes', skip, limit))
               /\ \A l \in SearchLists :
                    id \notin Range(search_recipes_by_ingredients(DBAfter, l))
               /\ ingredients' = ingredients
               /\ \A other \in DOMAIN recipes \ {id} :
                    other \in DOMAIN recipes' /\ recipes'[other] = recipes[other]
      ]_vars

\* The place of a recipe among the recipes, counted from 1 in the order of the ids.
Rank(rs, id) == Cardinality({ other \in DOMAIN rs : other <= id })

Given(parameter, default) == IF parameter = None THEN default ELSE parameter[1]

\* C17: a new recipe gets an id above every id there is, so the order of the
\* ids is the order of creation; GET /recipes with skip >= 0 and limit >= 0
\* (0 and 100 when absent) returns, in that order and as they are stored,
\* exactly the recipes whose place is in the window from skip + 1 to
\* skip + limit: not more than limit, and none when skip is not less than
\* the number of recipes; it changes no table.
C17_ListIsWindowInCreationOrder ==
    [][ /\ Answered({"create_recipe"})
           => \A id \in DOMAIN recipes : id < resp'[1].body[1].id
        /\ Handles({"list_recipes"})
           => LET skip == Given(req'[1].skip, 0)
                  limit == Given(req'[1].limit, 100)
                  out == resp'[1].body[1]
              IN  /\ resp'[1].status = 200
                  /\ UNCHANGED dbvars
                  /\ (skip >= 0 /\ limit >= 0)
                     => /\ \A k \in DOMAIN out :
                             /\ out[k].id \in DOMAIN recipes
                             /\ Rank(recipes, out[k].id) = skip + k
                             /\ out[k] = RecipeOut(DB, out[k].id)
                        /\ Len(out) <= limit
                        /\ \A id \in DOMAIN recipes :
                             ( /\ Rank(recipes, id) > skip
                               /\ Rank(recipes, id) <= skip + limit )
                             => \E k \in DOMAIN out : out[k].id = id
      ]_vars

\* C17 witness: with five recipes, the first created deleted and another
\* created since, skip = 1 and limit = 2 have returned the second and the
\* third of them in that order.
C17_Witness ==
    /\ req # None
    /\ req[1].op = "list_recipes"
    /\ req[1].skip = Some(1)
    /\ req[1].limit = Some(2)
    /\ DOMAIN recipes = {2, 3, 4, 5, 6}
    /\ Len(resp[1].body[1]) = 2
    /\ resp[1].body[1][1].id = 3
    /\ resp[1].body[1][2].id = 4

(***************************************************************************)
(* Properties of the concurrent service.                                   *)
(***************************************************************************)
WellFormedUser(body) ==
    /\ body.username # None /\ Strip(body.username[1]) # << >>
    /\ body.password # None /\ Strip(body.password[1]) # << >>

HasUser(us, name) == \E i \in DOMAIN us : us[i].username = name

TokenFor(r, name, t) ==
    /\ r.status = 200
    /\ r.body # None
    /\ r.body[1].token_type = "bearer"
    /\ r.body[1].access_token.kind = "jwt"
    /\ r.body[1].access_token.sig = "ok"
    /\ r.body[1].access_token.sub = Some(name)
    /\ t < r.body[1].access_token.exp

Writing(p) == pc[p] \in {"resolve", "insert_ingredient"}

Failed(p, exception) ==
    /\ pc[p] = "done"
    /\ S(p).resp[1].status = 500
    /\ S(p).resp[1].detail = exception

\* C7: two requests can both have looked up the same new ingredient name in
\* vain and stand before its insert; the one that commits first creates the
\* row, and the insert of a name that has a row by then fails with the
\* uniqueness violation, which ends the request (no retry, no use of the
\* existing row) and changes no table; the insert of a name that has no row
\* creates it, unless the request's pending association changes are stale;
\* no two ingredient rows ever share a name.
C7_IngredientRace ==
    [][ /\ UniqueNames(ingredients')
        /\ \A p \in Procs :
             (pc[p] = "insert_ingredient" /\ pc'[p] # "insert_ingredient")
             => LET name == Normalize(Head(S(p).names))
                IN  IF \E i \in DOMAIN ingredients : ingredients[i] = name
                    THEN /\ pc'[p] = "done"
                         /\ sess'[p][1].resp[1].status = 500
                         /\ sess'[p][1].resp[1].detail = "IntegrityError"
                         /\ <<users, recipes, ingredients>>'
                              = <<users, recipes, ingredients>>
                    ELSE \/ /\ pc'[p] = "resolve"
                            /\ ingredients' = Append(ingredients, name)
                         \/ /\ pc'[p] = "done"
                            /\ sess'[p][1].resp[1].detail = "StaleDataError"
                            /\ ingredients' = ingredients
      ]_vars

\* C7 witness: a request has lost the race for an ingredient name that the
\* other request, still running, has inserted.
C7_Witness ==
    \E p, q \in Procs :
        /\ p # q
        /\ Failed(p, "IntegrityError")
        /\ S(p).r.op = "create_recipe"
        /\ Writing(q)
        /\ S(q).r.op = "create_recipe"

UniqueUsernames(us) == \A i, j \in DOMAIN us : us[i].username = us[j].username => i = j

\* C8 as claimed: a signup that ends without having created its user has got
\* the 400 'Username already taken'.
C8_AlwaysCleanRejection ==
    \A p \in Procs :
        (pc[p] = "done" /\ S(p).r.op = "signup" /\ S(p).resp[1].status # 200)
        => /\ S(p).resp[1].status = 400
           /\ S(p).resp[1].detail = "Username already taken"

\* C8 as amended: a signup that finds a row with its username when it looks
\* the username up gets the 400 'Username already taken' and inserts nothing;
\* one that finds none goes on to insert, and if a concurrent signup has
\* committed that username in between, its insert fails with the raw uniqueness
\* violation (500), not the 400; no two user rows ever share a username.
C8_CleanRejectionAtLookup ==
    [][ /\ UniqueUsernames(users')
        /\ \A p \in Procs :
             /\ (pc[p] = "idle" /\ pc'[p] # "idle" /\ sess'[p][1].r.op = "signup")
                => LET name == Strip(sess'[p][1].r.body.username[1])
                   IN  /\ users' = users
                       /\ IF HasUser(users, name)
                          THEN /\ pc'[p] = "done"
                               /\ sess'[p][1].resp[1].status = 400
                               /\ sess'[p][1].resp[1].detail = "Username already taken"
                          ELSE pc'[p] = "signup_insert"
             /\ (pc[p] = "signup_insert" /\ pc'[p] # "signup_insert")
                => LET name == Strip(S(p).r.body.username[1])
                   IN  /\ pc'[p] = "done"
                       /\ IF HasUser(users, name)
                          THEN /\ users' = users
                               /\ sess'[p][1].resp[1].status = 500
                               /\ sess'[p][1].resp[1].detail = "IntegrityError"
                          ELSE /\ Len(users') = Len(users) + 1
                               /\ users'[Len(users')].username = name
                               /\ TokenFor(sess'[p][1].resp[1], name, now)
      ]_vars

\* C8 witness: of two concurrent signups with the same new username one has
\* created the user and the other has got the uniqueness violation.
C8_Witness ==
    \E p, q \in Procs :
        /\ Failed(p, "IntegrityError")
        /\ S(p).r.op = "signup"
        /\ pc[q] = "done"
        /\ S(q).r.op = "signup"
        /\ S(q).resp[1].status = 200

\* C9 as claimed: when a GET reads a recipe that a concurrent create or update
\* is working on and has committed to, the recipe's ingredients are all those
\* of that request's list, never a part of them.
IngredientNames(id) == { ingredients[i] : i \in BagToSet(recipes[id].ingredients) }

TargetNames(p) == { Normalize(n) : n \in Range(RecipeCreate(S(p).r.body)[1].ingredients) }

C9_NoIntermediateStateObserved ==
    [][ \A q \in Procs :
          ( /\ pc[q] = "idle"
            /\ pc'[q] = "done"
            /\ sess'[q][1].r.op = "get_recipe"
            /\ sess'[q][1].resp[1].status = 200 )
          => \A p \in Procs \ {q} :
               ( /\ Writing(p)
                 /\ S(p).committed
                 /\ S(p).recipe_id = sess'[q][1].r.recipe_id )
               => IngredientNames(S(p).recipe_id) = TargetNames(p)
      ]_vars

(***************************************************************************)
(* Properties of the sequential service.  In a step that handles a request *)
(* req' is the request, resp' its response, and the unprimed tables are    *)
(* the ones the handler ran on.                                            *)
(***************************************************************************)
Owned(rs, id) == id \in DOMAIN rs /\ rs[id].owner_id # None

Ownerless(rs, id) == id \in DOMAIN rs /\ rs[id].owner_id = None

\* C1: a PUT or DELETE on a recipe that has an owner, sent by a caller who is
\* anonymous or resolves to another user, is answered 403 'Not allowed' (422
\* when the PUT body is not well formed) and leaves every table unchanged; and
\* whenever an owned recipe is changed or removed, the step is a PUT or DELETE
\* of that recipe whose caller is its owner.
C1_OnlyOwnerWrites ==
    [][ /\ ( /\ Handles({"update_recipe", "delete_recipe"})
             /\ Owned(recipes, req'[1].recipe_id)
             /\ get_current_user(req'[1].authorization, users, now)
                  # recipes[req'[1].recipe_id].owner_id )
           => /\ <<users, recipes, ingredients>>' = <<users, recipes, ingredients>>
              /\ \/ /\ resp'[1].status = 403
                    /\ resp'[1].detail = "Not allowed"
                 \/ /\ req'[1].op = "update_recipe"
                    /\ ~WellFormedRecipe(req'[1].body)
                    /\ resp'[1].status = 422
        /\ \A id \in DOMAIN recipes :
             ( /\ recipes[id].owner_id # None
               /\ (id \notin DOMAIN recipes' \/ recipes'[id] # recipes[id]) )
             => /\ Handles({"update_recipe", "delete_recipe"})
                /\ req'[1].recipe_id = id
                /\ get_current_user(req'[1].authorization, users, now)
                     = recipes[id].owner_id
                /\ resp'[1].status = 200
      ]_vars

\* C1 witness: a PUT by an authenticated user who is not the owner was refused.
C1_Witness ==
    /\ resp # None
    /\ req[1].op = "update_recipe"
    /\ resp[1].status = 403
    /\ get_current_user(req[1].authorization, users, now) # None
    /\ recipes[req[1].recipe_id].title = <<"t">>

BearerUser(h, us, t) ==
    { i \in DOMAIN us :
        /\ h # None
        /\ Lower(h[1].scheme) = bearer
        /\ h[1].token.kind = "jwt"
        /\ h[1].token.sig = "ok"
        /\ t < h[1].token.exp
        /\ h[1].token.sub = Some(us[i].username) }

C3_CreateRecordsOwner ==
    [][ ( Handles({"create_recipe"}) /\ WellFormedRecipe(req'[1].body) )
        => LET id == resp'[1].body[1].id
               caller == BearerUser(req'[1].authorization, users, now)
           IN  /\ resp'[1].status = 200
               /\ DOMAIN recipes' = DOMAIN recipes \cup {id}
               /\ id \notin DOMAIN recipes
               /\ \A u \in caller : recipes'[id].owner_id = Some(u)
               /\ caller = {} => recipes'[id].owner_id = None
               /\ resp'[1].body[1].owner_id = recipes'[id].owner_id
      ]_vars

\* C3 witness: a recipe was created for an authenticated caller.
C3_Witness ==
    /\ resp # None
    /\ req[1].op = "create_recipe"
    /\ resp[1].status = 200
    /\ resp[1].body[1].owner_id = Some(2)

\* C6: a request whose header names no caller (no header, a scheme other than
\* bearer, an empty, malformed, badly signed or expired token, a token without
\* subject, a subject that is no user's name) is never rejected for it: tables
\* and response are those of the same request sent without any header, so the
\* only refusal it can meet is the 403 of the ownership check on an owned
\* recipe.
NoCaller(h, us, t) ==
    \/ h = None
    \/ Lower(h[1].scheme) # bearer
    \/ h[1].token.kind # "jwt"
    \/ h[1].token.sig # "ok"
    \/ h[1].token.exp <= t
    \/ h[1].token.sub = None
    \/ \A i \in DOMAIN us : Some(us[i].username) # h[1].token.sub

Anonymous(r) == [r EXCEPT !.authorization = None]

HandlerOf(r, D, t) ==
    CASE r.op = "create_recipe" -> create_recipe_endpoint(D, r, t)
      [] r.op = "update_recipe" -> update_recipe_endpoint(D, r, t)
      [] r.op = "delete_recipe" -> delete_recipe_endpoint(D, r, t)

C6_BadCredentialsAreAnonymous ==
    [][ ( /\ Handles({"create_recipe", "update_recipe", "delete_recipe"})
          /\ NoCaller(req'[1].authorization, users, now) )
        => LET anon == HandlerOf(Anonymous(req'[1]), DB, now)
           IN  /\ DB' = anon.db
               /\ resp'[1] = anon.resp
               /\ resp'[1].status \in {200, 403, 404, 422}
               /\ resp'[1].status = 403
                    => /\ req'[1].op \in {"update_recipe", "delete_recipe"}
                       /\ Owned(recipes, req'[1].recipe_id)
               /\ (req'[1].op = "create_recipe" /\ WellFormedRecipe(req'[1].body))
                    => resp'[1].status = 200 /\ Ownerless(recipes', resp'[1].body[1].id)
      ]_vars

\* C6 witness: a request with an expired token of an existing user was served
\* as an anonymous one.
C6_Witness ==
    /\ resp # None
    /\ req[1].op = "update_recipe"
    /\ resp[1].status = 200
    /\ req[1].authorization # None
    /\ req[1].authorization[1].token.sig = "ok"
    /\ req[1].authorization[1].token.exp <= now
    /\ get_user_by_username(users, <<"a">>) # None

(***************************************************************************)
(* Properties of signup and login (AuthSpec).  The username and password   *)
(* of a well-formed body are its fields without the surrounding blanks.    *)
(***************************************************************************)
\* C4: a signup whose username already has a user row is answered 400 'Username
\* already taken' and leaves the user table (every row and its password hash)
\* as it was; a signup with an unused username appends exactly one row, with
\* that username, and returns a bearer token whose subject is that user.
C4_SignupUsernameTaken ==
    [][ ( Handles({"signup"}) /\ WellFormedUser(req'[1].body) )
        => LET name == Strip(req'[1].body.username[1])
           IN  IF HasUser(users, name)
               THEN /\ resp'[1].status = 400
                    /\ resp'[1].detail = "Username already taken"
                    /\ resp'[1].body = None
                    /\ users' = users
               ELSE /\ Len(users') = Len(users) + 1
                    /\ SubSeq(users', 1, Len(users)) = users
                    /\ users'[Len(users')].username = name
                    /\ TokenFor(resp'[1], name, now)
      ]_vars

\* C4 witness: a signup with the name of an existing user and another password
\* than that user's was refused.
C4_Witness ==
    /\ resp # None
    /\ req[1].op = "signup"
    /\ resp[1].status = 400
    /\ \E i \in DOMAIN users :
         /\ users[i].username = Strip(req[1].body.username[1])
         /\ ~verify_password(Strip(req[1].body.password[1]), users[i].hashed_password)

\* C5: a login returns a token iff some user row has exactly the username of
\* the body and the password verifies against the hash of that row; every other
\* well-formed login gets one and the same response, 401 'Invalid credentials',
\* whether the username is unknown or the password is wrong; no table changes.
C5_LoginGenericFailure ==
    [][ ( Handles({"login"}) /\ WellFormedUser(req'[1].body) )
        => LET name == Strip(req'[1].body.username[1])
               password == Strip(req'[1].body.password[1])
               matches == \E i \in DOMAIN users :
                             /\ users[i].username = name
                             /\ verify_password(password, users[i].hashed_password)
           IN  /\ <<users, recipes, ingredients>>' = <<users, recipes, ingredients>>
               /\ matches => TokenFor(resp'[1], name, now)
               /\ ~matches => resp'[1] = Response("login", 401, "Invalid credentials", None)
      ]_vars

\* C5 witness: a login with an existing username and a wrong password, while a
\* user whose name differs only in case exists too, was refused.
C5_Witness ==
    /\ resp # None
    /\ req[1].op = "login"
    /\ resp[1].status = 401
    /\ HasUser(users, Strip(req[1].body.username[1]))
    /\ Len(users) = 2

C18_WitnessGet ==
    /\ resp # None
    /\ req[1].op = "get_recipe"
    /\ resp[1].status = 200
    /\ resp[1].body[1].owner_id # None

\* A field that is missing, empty or made of blanks only.
Blank(v) == v = None \/ \A i \in DOMAIN v[1] : v[1][i] = " "

\* C19: a signup or login whose username or password is missing, empty or of
\* blanks only, and a create or update of a recipe whose title is missing,
\* empty or of blanks only, is answered 422 (whoever the caller is, and for an
\* update whether or not the recipe exists or is the caller's) and leaves the
\* users, the recipes with their associations, and the ingredients unchanged.
C19_MalformedInputChangesNothing ==
    [][ /\ ( /\ Handles({"signup", "login"})
             /\ (Blank(req'[1].body.username) \/ Blank(req'[1].body.password)) )
           => /\ resp'[1].status = 422
              /\ UNCHANGED dbvars
        /\ ( /\ Handles({"create_recipe", "update_recipe"})
             /\ Blank(req'[1].body.title) )
           => /\ resp'[1].status = 422
              /\ UNCHANGED dbvars
      ]_vars

\* C19 witness: a PUT with a title of blanks, sent by the owner of the recipe
\* it names, was answered 422.
C19_Witness ==
    /\ resp # None
    /\ req[1].op = "update_recipe"
    /\ req[1].body.title = Some(<<" ">>)
    /\ resp[1].status = 422
    /\ req[1].recipe_id \in DOMAIN recipes
    /\ recipes[req[1].recipe_id].owner_id # None
    /\ get_current_user(req[1].authorization, users, now)
         = recipes[req[1].recipe_id].owner_id

\* The expiry a call of create_access_token asked for: 7 days (10080 minutes)
\* after the call, or the caller's lifetime after it.
ExpiryOf(call) ==
    call.at + (IF call.expires_delta = None THEN 10080 ELSE call.expires_delta[1])

\* C20: decode_access_token returns a value exactly for a token that a call of
\* create_access_token returned (signed with the process secret) and whose
\* expiry (the call's time + 7 days, or + the caller's lifetime) is after the
\* current time, and the value is the claims of that call with the expiry;
\* for an absent, empty, malformed, wrongly signed or expired token it
\* returns no value and does not raise.  The clock never goes back, and a
\* token that decode refuses now is refused at every later time.
C20_DecodeAcceptsIssuedUnexpired ==
    [][ /\ now' >= now
        /\ \A token \in DecodeInputs(issued) :
             decode_access_token(token, now) = None
               => decode_access_token(token, now') = None
        /\ Handles({"decode_access_token"})
           => LET live == { call \in issued : /\ call.token = req'[1].token
                                              /\ now < ExpiryOf(call) }
              IN  /\ resp'[1].status = 200
                  /\ UNCHANGED <<dbvars, issued>>
                  /\ resp'[1].body # None <=> live # {}
                  /\ resp'[1].body # None
                     => \E call \in live :
                          resp'[1].body[1] = [sub |-> call.data, exp |-> ExpiryOf(call)]
      ]_vars

\* C20 witness: of two tokens issued at the same time, the one with the
\* caller's lifetime has expired and decode has returned no value for it,
\* while the one with the default lifetime is still accepted.
C20_Witness ==
    /\ resp # None
    /\ req[1].op = "decode_access_token"
    /\ resp[1].body = None
    /\ \E short, long \in issued :
         /\ short.token = req[1].token
         /\ short.expires_delta # None
         /\ long.expires_delta = None
         /\ long.at = short.at
         /\ ExpiryOf(short) <= now
         /\ decode_access_token(long.token, now) # None

(***************************************************************************)
(* Properties of the rows' lifecycle.                                      *)
(***************************************************************************)
\* C21: no step changes the owner of a recipe that exists before and after
\* it: an owned recipe keeps its owner as long as it exists, and an ownerless
\* recipe is still ownerless after a PUT by an authenticated user succeeded.
C21_OwnerNeverChanges ==
    [][ \A id \in DOMAIN recipes \cap DOMAIN recipes' :
          recipes'[id].owner_id = recipes[id].owner_id ]_vars

\* C21 witness: an authenticated user has updated a recipe without owner, and
\* it has no owner still.
C21_Witness ==
    /\ resp # None
    /\ req[1].op = "update_recipe"
    /\ resp[1].status = 200
    /\ get_current_user(req[1].authorization, users, now) # None
    /\ recipes[req[1].recipe_id].owner_id = None
    /\ recipes[req[1].recipe_id].title = <<"u">>

\* The request of process p has failed on the uniqueness of an ingredient name.
LostRace(p) ==
    /\ pc'[p] = "done"
    /\ sess'[p][1].resp[1].status = 500
    /\ sess'[p][1].resp[1].detail = "IntegrityError"

\* C22 as stated: when create_recipe fails on the uniqueness of a name, the
\* recipe row and all the associations attached so far are persisted.
C22_FailedCreateKeepsAttached ==
    [][ \A p \in Procs :
          ( /\ pc[p] = "insert_ingredient"
            /\ S(p).r.op = "create_recipe"
            /\ LostRace(p) )
          => /\ S(p).recipe_id \in DOMAIN recipes'
             /\ BagToSet(recipes'[S(p).recipe_id].ingredients) = BagToSet(S(p).current)
      ]_vars

\* C22: create_recipe is not all-or-nothing.  While it resolves its names the
\* recipe row is already in the table; each new ingredient is committed as it
\* is resolved, together with the associations attached before it; and when
\* the insert of a name fails on its uniqueness, the recipe row, the
\* ingredient rows and the associations committed so far stay as they are,
\* while the associations attached since the last commit are not stored.
C22_FailedCreateKeepsCommitted ==
    [][ \A p \in Procs :
          ( /\ pc[p] = "insert_ingredient"
            /\ S(p).r.op = "create_recipe" )
          => LET id == S(p).recipe_id
             IN  /\ id \in DOMAIN recipes
                 /\ pc'[p] = "resolve"
                    => /\ Len(ingredients') = Len(ingredients) + 1
                       /\ BagToSet(recipes'[id].ingredients) = BagToSet(S(p).current)
                 /\ LostRace(p)
                    => /\ id \in DOMAIN recipes'
                       /\ recipes'[id] = recipes[id]
                       /\ recipes'[id].title = RecipeCreate(S(p).r.body)[1].title
                       /\ ingredients' = ingredients
                       /\ BagToSet(recipes'[id].ingredients) \subseteq BagToSet(S(p).current)
      ]_vars

\* C22 witness: a create with three names has failed on the third; its recipe
\* row is there with the association of the first name, committed with the
\* second ingredient, and without the association of the second.
C22_Witness ==
    \E p \in Procs :
        /\ Failed(p, "IntegrityError")
        /\ S(p).r.op = "create_recipe"
        /\ S(p).recipe_id \in DOMAIN recipes
        /\ BagCardinality(recipes[S(p).recipe_id].ingredients) = 1
        /\ BagCardinality(S(p).current) = 2

\* The password a stored hash was made of.
PasswordOf(hashed) == hashed.digest[2]

Orphans == { i \in DOMAIN ingredients :
               \A id \in DOMAIN recipes : ~BagIn(i, recipes[id].ingredients) }

\* C24: every ingredient row is carried over every step with its id and its
\* name, whatever the step (create, update that replaces a list, delete,
\* search, a failed request); and a create-or-get of a name whose normalized
\* form is the name of a row, referenced or not, returns that row and adds none.
C24_IngredientsOnlyGrow ==
    [][ /\ \A i \in DOMAIN ingredients :
             i \in DOMAIN ingredients' /\ ingredients'[i] = ingredients[i]
        /\ \A i \in DOMAIN ingredients :
             ( /\ Handles({"create_or_get_ingredient"})
               /\ Normalize(req'[1].name) = ingredients[i] )
             => /\ resp'[1].body[1].id = i
                /\ ingredients' = ingredients
      ]_vars

\* C24 witness: an ingredient row that no recipe references any more, while
\* another one is referenced, has been returned by a create-or-get of its name
\* written differently.
C24_Witness ==
    /\ resp # None
    /\ req[1].op = "create_or_get_ingredient"
    /\ resp[1].body[1].id \in Orphans
    /\ req[1].name # ingredients[resp[1].body[1].id]
    /\ \E id \in DOMAIN recipes : recipes[id].ingredients # EmptyBag
    /\ Orphans # DOMAIN ingredients

\* C25: in every state the owner of every recipe is null or the id of a row
\* of the users table.
C25_OwnerIsNullOrUser ==
    \A id \in DOMAIN recipes :
        \/ recipes[id].owner_id = None
        \/ recipes[id].owner_id[1] \in DOMAIN users

\* C25 witness: next to a recipe owned by a user, a recipe has been created
\* with a well signed, unexpired token whose subject has no user row, and it
\* has no owner.
C25_Witness ==
    /\ resp # None
    /\ req[1].op = "create_recipe"
    /\ resp[1].status = 200
    /\ req[1].authorization # None
    /\ Lower(req[1].authorization[1].scheme) = bearer
    /\ decode_access_token(req[1].authorization[1].token, now) # None
    /\ resp[1].body[1].owner_id = None
    /\ \E id \in DOMAIN recipes : recipes[id].owner_id # None

\* The names of list L that are not blank, as given.
NonBlank(L) == { L[k] : k \in { j \in DOMAIN L : NotBlank(L[j]) } }

\* List W asks for names of list L only, and for one at least: each name of W
\* that is not blank is a name of L up to letter case and surrounding blanks.
SelectionOf(W, L) ==
    /\ Wanted(W) # {}
    /\ \A w \in NonBlank(W) : \E n \in NonBlank(L) : Lower(Strip(w)) = Lower(Strip(n))

\* No name of list W has a comma in it.
CommaFree(W) == \A k \in DOMAIN W : \A j \in DOMAIN W[k] : W[k][j] # ","

\* C26: a recipe created with the names L is in the result of
\* search_recipes_by_ingredients(W), in the state the create leaves and after
\* every later step that is not a PUT or a DELETE of that recipe, for every W
\* that selects names of L written in any letter case and with any blanks
\* around them; and it is in the answer of GET /search for the names of W
\* joined by commas, when none of them has a comma in it and the response
\* model accepts the recipes found (it refuses one that has the empty name
\* among its ingredients, as a recipe created with a blank entry has).
C26_CreatedIsFoundByItsNames ==
    [][ /\ ( Handles({"create_recipe"}) /\ DOMAIN recipes' # DOMAIN recipes )
           => \A W \in MatchSearches :
                SelectionOf(W, req'[1].body.ingredients[1])
                  => LET id == Max(DOMAIN recipes')
                         hits == search_recipes_by_ingredients(DB', W)
                     IN  /\ id \in Range(hits)
                         /\ ( CommaFree(W) /\ ValidOut(DB', Range(hits)) )
                            => id \in Found(search(DB', [op |-> "search",
                                                         q |-> Some(Join(W))]).resp)
        /\ dbvars' # dbvars
           => \A W \in MatchSearches :
                LET before == Range(search_recipes_by_ingredients(DB, W))
                    after == Range(search_recipes_by_ingredients(DB', W))
                IN  \A id \in before :
                      \/ id \in after
                      \/ /\ Handles({"update_recipe", "delete_recipe"})
                         /\ req'[1].recipe_id = id
      ]_vars

\* C26 witness: a recipe created with 'A ' and 'b' has been found by a search
\* for 'B ' and ' A ', in that order, while a recipe created with other names
\* has not.
C26_Witness ==
    /\ resp # None
    /\ req[1].op = "search_recipes_by_ingredients"
    /\ req[1].ingredient_list = << <<"B", " ">>, <<" ", "A", " ">> >>
    /\ Cardinality(DOMAIN recipes) = 2
    /\ Len(resp[1].body[1]) = 1

\* The recipe has been written by a PUT (a create gives the title 't').
WrittenByPut(id) == id \in DOMAIN recipes /\ recipes[id].title \in {<<"u">>, <<"v">>}

\* C27: a PUT on a recipe that an earlier PUT has written is answered 200, and
\* the recipe is then what the later body says: its title and description are
\* the body's and its ingredients are those the body names, one association
\* each, whatever the earlier PUT wrote.
C27_LaterPutWins ==
    [][ ( /\ Handles({"update_recipe"})
          /\ WrittenByPut(req'[1].recipe_id) )
        => LET id == req'[1].recipe_id
               body == req'[1].body
           IN  /\ resp'[1].status = 200
               /\ recipes'[id].title = body.title[1]
               /\ recipes'[id].description = body.description
               /\ recipes'[id].ingredients
                    = SetToBag(NamedIds(ingredients', body.ingredients[1]))
      ]_vars

\* C28: GET /recipes, GET /recipes/{id}, GET /search and POST /login leave the
\* users, the recipes with their associations and the ingredients as they
\* are, whatever they answer; and the resolution of the caller of a create,
\* an update or a delete adds or changes no user, nor anything at all when
\* the request is refused (403, 404 or 422).
C28_ReadsWriteNothing ==
    [][ /\ Handles({"list_recipes", "get_recipe", "search", "login"})
           => UNCHANGED dbvars
        /\ Handles({"create_recipe", "update_recipe", "delete_recipe"})
           => /\ users' = users
              /\ resp'[1].status \in {403, 404, 422} => UNCHANGED dbvars
      ]_vars

\* C28 witness: a search for 'b' and 'a', when 'a' is the only ingredient row
\* and a recipe has it, was answered with the empty list, and 'a' is the only
\* ingredient row still.
C28_Witness ==
    /\ resp # None
    /\ req[1].op = "search"
    /\ req[1].q = Some(<<"b", ",", " ", "a", ",">>)
    /\ resp[1].body[1] = << >>
    /\ ingredients = << <<"a">> >>
    /\ recipes # EmptyTable
    /\ users # << >>
\* The rows of the ingredient table ings whose name is the empty string.
EmptyNamed(ings) == { i \in DOMAIN ings : ings[i] = << >> }

\* C29: create_or_get_ingredient given the empty string or blanks only returns
\* a row whose name is the empty string; the table then has one such row, the
\* one returned, which is the row that was there if there was one; and a
\* POST /recipes whose list has a blank entry is not refused as invalid and
\* stores the recipe with an association to that row.
C29_BlankNameIsTheEmptyRow ==
    [][ /\ ( Handles({"create_or_get_ingredient"}) /\ ~NotBlank(req'[1].name) )
           => LET out == resp'[1].body[1]
              IN  /\ resp'[1].status = 200
                  /\ out.name = << >>
                  /\ EmptyNamed(ingredients') = {out.id}
                  /\ EmptyNamed(ingredients) # {} => ingredients' = ingredients
                  /\ EmptyNamed(ingredients) = {}
                       => ingredients' = Append(ingredients, << >>)
        /\ ( /\ Handles({"create_recipe"})
              /\ \E k \in DOMAIN req'[1].body.ingredients[1] :
                   ~NotBlank(req'[1].body.ingredients[1][k]) )
           => /\ resp'[1].status # 422
              /\ DOMAIN recipes' # DOMAIN recipes
              /\ EmptyNamed(ingredients) \subseteq EmptyNamed(ingredients')
              /\ Cardinality(EmptyNamed(ingredients')) = 1
              /\ \A i \in EmptyNamed(ingredients') :
                   BagIn(i, recipes'[Max(DOMAIN recipes')].ingredients)
      ]_vars

\* C29 witness: after create_or_get_ingredient was given blanks, a recipe has
\* been posted with the names 'a' and ' '; it is stored with the rows 'a' and
\* '', the '' row being the one that was there, and the answer is the 500 of
\* the response model, which refuses the empty name.
C29_Witness ==
    /\ resp # None
    /\ req[1].op = "create_recipe"
    /\ req[1].body.ingredients = Some(<< <<"a">>, <<" ">> >>)
    /\ resp[1].status = 500
    /\ resp[1].detail = "ResponseValidationError"
    /\ ingredients = << << >>, <<"a">> >>
    /\ \E id \in DOMAIN recipes : recipes[id].ingredients = SetToBag({1, 2})
\* The rows of the user table us that have the username.
Named(us, username) == { i \in DOMAIN us : us[i].username = username }

\* The sample recipe k is stored at id with the user owner as its owner: its
\* fields are the sample's and it has one association with the row of each
\* of its ingredients.
IsSample(D, id, k, owner) ==
    LET r == D.recipes[id]
        s == SampleRecipes[k]
    IN  /\ r.title = s.title
        /\ r.description = Some(s.description)
        /\ r.image_url = Some(s.image_url)
        /\ r.owner_id = Some(owner)
        /\ BagCardinality(r.ingredients) = Len(s.ingredients)
        /\ NamesOf(D.recipes, D.ingredients, id) = Range(s.ingredients)

\* C30: a run of seed() leaves tables that another run, with any salts,
\* leaves as they are; it only adds rows: a user for each sample username
\* that was absent and a recipe for each sample title that no recipe had;
\* after it each sample username has one user, each sample title has a
\* recipe and 'garlic' is the name of one ingredient row; and run on the
\* empty database it leaves the users alice and bob, the three sample
\* recipes with their owners and ingredients, and nothing else.
C30_SeedIsIdempotent ==
    [][ Handles({"seed"})
        => /\ \A salt_alice, salt_bob \in Salts :
                seed(DB', salt_alice, salt_bob) = DB'
           /\ SubSeq(users', 1, Len(users)) = users
           /\ Len(users') = Len(users)
                + Cardinality({ u \in {alice, bob} : Named(users, u) = {} })
           /\ Restrict(recipes', DOMAIN recipes) = recipes
           /\ Cardinality(DOMAIN recipes')
                = Cardinality(DOMAIN recipes) + Cardinality(Missing(recipes))
           /\ SubSeq(ingredients', 1, Len(ingredients)) = ingredients
           /\ \A u \in {alice, bob} : Cardinality(Named(users', u)) = 1
           /\ Missing(recipes') = {}
           /\ Cardinality({ i \in DOMAIN ingredients' : ingredients'[i] = garlic }) = 1
           /\ ( users = << >> /\ recipes = EmptyTable /\ ingredients = << >> )
              => /\ Len(users') = 2
                 /\ users'[1].username = alice /\ users'[2].username = bob
                 /\ \A i \in 1 .. 2 :
                      verify_password(password123, users'[i].hashed_password)
                 /\ DOMAIN recipes' = 1 .. 3
                 /\ IsSample(DB', 1, 1, 1)
                 /\ IsSample(DB', 2, 2, 2)
                 /\ IsSample(DB', 3, 3, 1)
                 /\ Len(ingredients') = 14
      ]_vars

\* C30 witness: seed() has run, after an earlier run whose 'Avocado Toast'
\* was deleted: the recipe is there again under the id 4, the other two
\* sample recipes are the rows of the earlier run, and the users and the
\* ingredients are those of the earlier run.
C30_Witness ==
    /\ resp # None
    /\ req[1].op = "seed"
    /\ Len(users) = 2
    /\ DOMAIN recipes = {1, 3, 4}
    /\ IsSample(DB, 1, 1, 1)
    /\ IsSample(DB, 3, 3, 1)
    /\ IsSample(DB, 4, 2, 2)
    /\ Len(ingredients) = 14

====
